---------------------------- MODULE Spec2Model ----------------------------
(***************************************************************************)
(* A model of the conduit Mesh Blueprint algorithms: blueprint verify,     *)
(* the coordset / topology converters, to_polygonal, generate_sides and    *)
(* the ParMETIS partition driver.                                          *)
(*                                                                         *)
(* Every subsystem has its own specification (SpecVerify, SpecPart, ...)   *)
(* over its own variables; the variables of the other subsystems stay at   *)
(* their idle value.                                                       *)
(***************************************************************************)
EXTENDS Integers, Sequences, FiniteSets, TLC

VARIABLES
    \* ---- blueprint verify ----
    mesh,       \* the tree handed to mesh::verify
    info,       \* the info tree (path -> value of its "valid" child)
    vres,       \* what mesh::verify returned ("none" before the call)
    vfatal,     \* TRUE when the call left through the error handler
    vphase,     \* "build" while the caller assembles the tree, "done" after
    \* ---- partition driver ----
    ranks,      \* per rank: the local domains, pc and locals of the driver
    reduce,     \* the slots of the max_all_reduce collectives
    popts,      \* the options node handed to generate_partition_field
    \* ---- converters, to_polygonal, generate_sides ----
    cin,        \* the source handed to a converter / generator
    cout,       \* what it produced
    cphase      \* "in" before the call, "out" after

verifyVars == <<mesh, info, vres, vfatal, vphase>>
partVars   == <<ranks, reduce, popts>>
convVars   == <<cin, cout, cphase>>
vars       == <<verifyVars, partVars, convVars>>

Idle == "idle"
IdleVerify == mesh = Idle /\ info = Idle /\ vres = Idle /\ vfatal = FALSE /\ vphase = Idle
IdlePart   == ranks = Idle /\ reduce = Idle /\ popts = Idle
IdleConv   == cin = Idle /\ cout = Idle /\ cphase = Idle

-----------------------------------------------------------------------------
(* Generic helpers on sequences                                            *)

Range(s) == { s[i] : i \in DOMAIN s }

RECURSIVE SumSeq(_)
SumSeq(s) == IF s = <<>> THEN 0 ELSE Head(s) + SumSeq(Tail(s))

RECURSIVE Flatten(_)
Flatten(ss) == IF ss = <<>> THEN <<>> ELSE Head(ss) \o Flatten(Tail(ss))

-----------------------------------------------------------------------------
(* The Node tree, as far as verify looks at it.                            *)
(* A leaf is [k, v]: k its kind, v its string value when k = "str".        *)

Absent   == [k |-> "absent", v |-> ""]
Str(s)   == [k |-> "str", v |-> s]
IntLeaf  == [k |-> "int", v |-> ""]

(* The info tree: a function from paths to the value of the "valid" child  *)
(* of the node at that path ("unset" when the node has no such child).     *)
EmptyInfo == (<<>> :> "unset")

Prefixes(p) == { SubSeq(p, 1, n) : n \in 0..Len(p) }
IsPrefix(p, q) == Len(p) <= Len(q) /\ SubSeq(q, 1, Len(p)) = p

\* Node::operator[] on a non-const node: missing nodes on the path are created
Fetch(I, p) ==
    [q \in DOMAIN I \cup Prefixes(p) |-> IF q \in DOMAIN I THEN I[q] ELSE "unset"]

NodeReset_keep(I, p) == Fetch(I, p)
\* Node::reset(): the node at p loses its children and its value
NodeReset(I, p) ==
    LET keep == { q \in DOMAIN I : ~IsPrefix(p, q) } \cup Prefixes(p)
    IN  [q \in keep |-> IF q \in DOMAIN I /\ ~IsPrefix(p, q) THEN I[q] ELSE "unset"]

\* the names of the children of the node at p (the log children aside)
LogNames == {"errors", "info", "optional"}
ChildNames(I, p) ==
    { q[Len(p) + 1] : q \in { r \in DOMAIN I : IsPrefix(p, r) /\ Len(r) > Len(p) } }

\* log::validation: "valid" only ever goes from true to false
validation(I, p, r) ==
    LET J == Fetch(I, p)
    IN  [J EXCEPT ![p] = IF r /\ @ # "false" THEN "true" ELSE "false"]

\* log::error, log::info, log::optional append a message under a list child
log_error(I, p)    == Fetch(I, Append(p, "errors"))
log_info(I, p)     == Fetch(I, Append(p, "info"))
log_optional(I, p) == Fetch(I, Append(p, "optional"))

\* Node::as_string on a leaf: a fatal error unless the leaf is a string
as_string_fatal(x) == x.k # "str"

-----------------------------------------------------------------------------
(* The verify_*_field helpers.  x is the child named f of the node being   *)
(* verified (Absent when there is none), p the path of its info node.      *)
(* Every check returns [res, info, fatal]: the boolean, the info tree it   *)
(* leaves, and whether it left through the error handler.                  *)

Ret(r, I, f) == [res |-> r, info |-> I, fatal |-> f]

FieldPath(p, f) == IF f = "" THEN p ELSE Append(p, f)

verify_field_exists(x, I, p, f) ==
    IF f = "" THEN Ret(TRUE, I, FALSE)
    ELSE Ret(x.k # "absent",
             validation(IF x.k # "absent" THEN I ELSE log_error(I, p),
                        Append(p, f), x.k # "absent"),
             FALSE)

\* the end of a verify_*_field helper: e is what verify_field_exists
\* returned, ok the helper's own test of the field
field_checked(e, ok, p, f) ==
    Ret(e.res /\ ok,
        validation(IF e.res /\ ~ok THEN log_error(e.info, p) ELSE e.info,
                   FieldPath(p, f), e.res /\ ok),
        FALSE)

verify_integer_field(x, I, p, f) ==
    field_checked(verify_field_exists(x, Fetch(I, FieldPath(p, f)), p, f),
                  x.k = "int", p, f)

verify_string_field(x, I, p, f) ==
    field_checked(verify_field_exists(x, Fetch(I, FieldPath(p, f)), p, f),
                  x.k = "str", p, f)

\* x is [k, n]: the kind of the child and its number of children
verify_object_field(x, I, p, f, allow_list, allow_empty, num_children) ==
    field_checked(verify_field_exists(x, Fetch(I, FieldPath(p, f)), p, f),
                  /\ x.k = "object" \/ (allow_list /\ x.k = "list")
                  /\ allow_empty \/ x.n # 0
                  /\ num_children = 0 \/ x.n = num_children,
                  p, f)

\* the end of verify_enum_field: s is what verify_string_field returned
enum_checked(s, ok, p, f) ==
    Ret(s.res /\ ok,
        validation(IF ~s.res THEN s.info
                   ELSE IF ok THEN log_info(s.info, p) ELSE log_error(s.info, p),
                   FieldPath(p, f), s.res /\ ok),
        FALSE)

verify_enum_field(x, I, p, f, enum_values) ==
    enum_checked(verify_string_field(x, Fetch(I, FieldPath(p, f)), p, f),
                 x.v \in enum_values, p, f)

-----------------------------------------------------------------------------
(* The idioms the verify functions are written in.  st is [res, info,      *)
(* fatal]: the running "bool res", the info tree so far, and whether the   *)
(* error handler has been entered (nothing runs after that).               *)

\* bool res = true;
Start(I) == Ret(TRUE, I, FALSE)

\* res &= e, for a check e that ran on st.info
AndRes(st, e) ==
    IF st.fatal THEN st
    ELSE IF e.fatal THEN e
    ELSE Ret(st.res /\ e.res, e.info, FALSE)

\* log::validation(info, res); return res;
Validate(st, p) ==
    IF st.fatal THEN st ELSE Ret(st.res, validation(st.info, p, st.res), FALSE)

and_string_field(st, x, p, f) == AndRes(st, verify_string_field(x, st.info, p, f))

and_integer_field(st, x, p, f) == AndRes(st, verify_integer_field(x, st.info, p, f))

and_enum_field(st, x, p, f, enum_values) ==
    AndRes(st, verify_enum_field(x, st.info, p, f, enum_values))

-----------------------------------------------------------------------------
(* Protocol verifies.  Each takes the node, the info tree I and the path p *)
(* of the info node it writes.                                             *)

TOPO_TYPES  == {"points", "uniform", "rectilinear", "structured", "unstructured"}
TOPO_SHAPES == {"point", "line", "tri", "quad", "tet", "hex", "polygonal", "polyhedral"}

\* what verify_object_field looks at in an object child
ObjOf(e) == [k |-> e.k, n |-> e.n]

topology_type_verify(x, I, p) ==
    Validate(and_enum_field(Start(NodeReset(I, p)), x, p, "", TOPO_TYPES), p)

topology_shape_verify(x, I, p) ==
    Validate(and_enum_field(Start(NodeReset(I, p)), x, p, "", TOPO_SHAPES), p)

\* blueprint::o2mrelation::verify: the relation's own checks are the
\* attribute o2m of the node; the info node is reset and validated
o2mrelation_verify(e, I, p) ==
    Validate(Ret(e.o2m, NodeReset(I, p), FALSE), p)

\* verify_field_exists(.., "shape") && shape::verify(node["shape"], info["shape"]);
\* e is what verify_field_exists returned
shape_checked(e, x, p) ==
    IF e.res THEN topology_shape_verify(x, e.info, Append(p, "shape")) ELSE e

and_shape_field(st, x, p) ==
    AndRes(st, shape_checked(verify_field_exists(x, st.info, p, "shape"), x, p))

\* subnode_res &= sub_node["shape"].as_string() == "polygonal";
\* subnode_res &= o2mrelation::verify(sub_node, subnode_info);
poly_subnode_shape(sub, ps, st) ==
    IF as_string_fatal(sub.shape) THEN Ret(FALSE, st.info, TRUE)
    ELSE AndRes(Ret(st.res /\ sub.shape.v = "polygonal", st.info, FALSE),
                o2mrelation_verify(sub, st.info, ps))

\* the block of verify_poly_node for a sub node that has a "shape" child
poly_subnode(sub, ps, I) ==
    Validate(
        poly_subnode_shape(sub, ps,
            and_integer_field(and_shape_field(Start(I), sub.shape, ps),
                              sub.connectivity, ps, "connectivity")),
        ps)

\* the subelements block of verify_poly_node (single-shape case: the child
\* looked for is "shape", the sub node is the subelements node itself);
\* ov is what verify_object_field(.., "subelements") returned
verify_poly_subelements(t, p, ov) ==
    IF ~ov.res THEN ov
    ELSE IF t.subelements.shape.k = "absent"
         THEN Validate(Ret(FALSE, ov.info, FALSE), Append(p, "subelements"))
    ELSE Validate(poly_subnode(t.subelements, Append(p, "subelements"), ov.info),
                  Append(p, "subelements"))

\* the polyhedral block of verify_poly_node; st holds elems_res
verify_poly_polyhedral(t, p, st) ==
    IF t.elements.shape.v = "polyhedral"
    THEN AndRes(st, verify_poly_subelements(t, p,
                        verify_object_field(ObjOf(t.subelements), st.info, p,
                                            "subelements", FALSE, FALSE, 0)))
    ELSE st

\* verify_poly_node(false, "", node, node_info, topo, info, elems_res);
\* st holds elems_res, the result holds elems_res &= node_res
verify_poly_node(t, p, st) ==
    IF st.fatal THEN st
    ELSE IF t.elements.shape.k = "str"
            /\ t.elements.shape.v \in {"polygonal", "polyhedral"}
    THEN verify_poly_polyhedral(t, p,
             AndRes(st, o2mrelation_verify(t.elements, st.info, Append(p, "elements"))))
    ELSE st

\* points, uniform and rectilinear topologies check the same two fields
topology_implicit_verify(t, I, p, type_name) ==
    Validate(
        and_enum_field(and_string_field(Start(NodeReset(I, p)), t.coordset, p, "coordset"),
                       t.type, p, "type", {type_name}),
        p)

\* the elements block of unstructured::verify; c is what
\* verify_object_field(.., "elements") returned
unstructured_elements(t, p, c) ==
    IF ~c.res THEN c
    ELSE IF t.elements.shape.k # "absent"
    THEN Validate(
             verify_poly_node(t, p,
                 and_integer_field(
                     and_shape_field(Start(c.info), t.elements.shape, Append(p, "elements")),
                     t.elements.connectivity, Append(p, "elements"), "connectivity")),
             Append(p, "elements"))
    ELSE \* shape stream case ("element_types"): nothing is checked
         Validate(Start(c.info), Append(p, "elements"))

and_unstructured_elements(st, t, p) ==
    AndRes(st, unstructured_elements(t, p,
                   verify_object_field(ObjOf(t.elements), st.info, p, "elements",
                                       FALSE, FALSE, 0)))

topology_unstructured_verify(t, I, p) ==
    Validate(
        and_unstructured_elements(
            and_enum_field(
                and_string_field(Start(NodeReset(I, p)), t.coordset, p, "coordset"),
                t.type, p, "type", {"unstructured"}),
            t, p),
        p)

\* verify_field_exists(.., "type") && type::verify(topo["type"], info["type"]);
\* e is what verify_field_exists returned
type_checked(e, x, p) ==
    IF e.res THEN topology_type_verify(x, e.info, Append(p, "type")) ELSE e

\* the dispatch of topology::verify on the type; ty is what the type check
\* returned
topology_by_type(t, p, ty) ==
    IF ~ty.res THEN ty
    ELSE IF t.type.v \in {"points", "uniform", "rectilinear"}
         THEN topology_implicit_verify(t, ty.info, p, t.type.v)
    ELSE IF t.type.v = "unstructured"
         THEN topology_unstructured_verify(t, ty.info, p)
    ELSE Ret(TRUE, ty.info, FALSE)

\* the grid_function block of topology::verify
topology_grid_function(t, p, st) ==
    IF st.fatal \/ t.grid_function.k = "absent" THEN st
    ELSE and_string_field(Ret(st.res, log_optional(st.info, p), FALSE),
                          t.grid_function, p, "grid_function")

topology_verify(t, I, p) ==
    Validate(
        topology_grid_function(t, p,
            topology_by_type(t, p,
                type_checked(verify_field_exists(t.type, NodeReset(I, p), p, "type"),
                             t.type, p))),
        p)

\* coordset::verify: the coordset's own checks are its attribute ok
coordset_verify(c, I, p) == Validate(Ret(c.ok, NodeReset(I, p), FALSE), p)

\* matset::verify, adjset::verify, nestset::verify: the "topology" string
\* field, then the protocol's other checks (the attribute ok)
topology_ref_verify(c, I, p) ==
    Validate(and_string_field(Ret(c.ok, NodeReset(I, p), FALSE), c.topology, p, "topology"), p)

matset_verify(c, I, p)  == topology_ref_verify(c, I, p)
adjset_verify(c, I, p)  == topology_ref_verify(c, I, p)
nestset_verify(c, I, p) == topology_ref_verify(c, I, p)

specset_verify(c, I, p) ==
    Validate(and_string_field(Ret(c.ok, NodeReset(I, p), FALSE), c.matset, p, "matset"), p)

\* the topology block of field::verify (has_values against has_topo)
field_topology(c, p, st) ==
    IF (c.topology.k # "absent") # c.has_values
    THEN Ret(FALSE, log_error(st.info, p), FALSE)
    ELSE IF c.topology.k # "absent"
         THEN and_string_field(st, c.topology, p, "topology")
    ELSE st

\* the matset block of field::verify (has_matset_values against has_matset)
field_matset(c, p, st) ==
    IF (c.matset.k # "absent") # c.has_matset_values
    THEN Ret(FALSE, log_error(st.info, p), FALSE)
    ELSE IF c.matset.k # "absent"
         THEN and_string_field(st, c.matset, p, "matset")
    ELSE st

\* field::verify: topology / matset are checked when present together with
\* their values; the association / basis and mlarray checks are the
\* attribute ok
field_verify(c, I, p) ==
    Validate(
        field_matset(c, p,
            field_topology(c, p,
                IF c.topology.k = "absent" /\ c.matset.k = "absent"
                THEN Ret(FALSE, log_error(NodeReset(I, p), p), FALSE)
                ELSE Ret(c.ok, NodeReset(I, p), FALSE))),
        p)

-----------------------------------------------------------------------------
(* A domain is a record of its seven sections.  A section is [k, ch]: its  *)
(* kind ("absent", "object", "list" or "leaf") and its children.           *)

SectionNames == <<"coordsets", "topologies", "matsets", "specsets",
                  "fields", "adjsets", "nestsets">>

NoSection == [k |-> "absent", ch |-> <<>>]
SecObj(sec) == [k |-> sec.k, n |-> Len(sec.ch)]

\* Node::has_child on a section
has_child(sec, name) == sec.k = "object" /\ \E i \in DOMAIN sec.ch : sec.ch[i].name = name

\* the end of verify_reference_field: the two validations and the return
reference_result(J, r, err, p, field_name) ==
    Ret(r, validation(validation(IF err THEN log_error(J, p) ELSE J,
                                 Append(p, field_name), r), p, r), FALSE)

\* info_tree[ref_path][ref_name]["valid"].as_string() != "true", on the info
\* tree J in which the path vp has been fetched
reference_valid(J, vp, p, field_name) ==
    IF J[vp] = "unset" THEN Ret(FALSE, J, TRUE)
    ELSE reference_result(J, J[vp] = "true", J[vp] # "true", p, field_name)

\* verify_reference_field after its first line; s is what
\* verify_string_field returned
reference_checked(n, rp, x, p, field_name, ref_path, s) ==
    IF ~s.res THEN reference_result(s.info, FALSE, FALSE, p, field_name)
    ELSE IF ~has_child(n[ref_path], x.v)
         THEN reference_result(s.info, FALSE, TRUE, p, field_name)
    ELSE reference_valid(Fetch(s.info, rp \o <<ref_path, x.v>>),
                         rp \o <<ref_path, x.v>>, p, field_name)

verify_reference_field(n, I, rp, c, p, field_name, ref_path) ==
    reference_checked(n, rp, c[field_name], p, field_name, ref_path,
                      verify_string_field(c[field_name], I, p, field_name))

\* the protocol verify run on a child of section S
child_verify(S, c, I, p) ==
    CASE S = "coordsets"  -> coordset_verify(c, I, p)
      [] S = "topologies" -> topology_verify(c, I, p)
      [] S = "matsets"    -> matset_verify(c, I, p)
      [] S = "specsets"   -> specset_verify(c, I, p)
      [] S = "fields"     -> field_verify(c, I, p)
      [] S = "adjsets"    -> adjset_verify(c, I, p)
      [] S = "nestsets"   -> nestset_verify(c, I, p)

\* the reference checks run on a child of section S: <<field, ref_path>>
child_refs(S, c) ==
    CASE S = "coordsets"  -> <<>>
      [] S = "topologies" -> << <<"coordset", "coordsets">> >>
      [] S = "matsets"    -> << <<"topology", "topologies">> >>
      [] S = "specsets"   -> << <<"matset", "matsets">> >>
      [] S = "fields"     -> (IF c.topology.k # "absent"
                              THEN << <<"topology", "topologies">> >> ELSE <<>>)
                             \o (IF c.matset.k # "absent"
                                 THEN << <<"matset", "matsets">> >> ELSE <<>>)
      [] S = "adjsets"    -> << <<"topology", "topologies">> >>
      [] S = "nestsets"   -> << <<"topology", "topologies">> >>

\* the info child that receives the section's validation
SectionInfoName(S) == IF S = "nestsets" THEN "nestets" ELSE S

RECURSIVE verify_refs(_, _, _, _, _, _)
verify_refs(n, st, rp, c, p, refs) ==
    IF refs = <<>> \/ st.fatal THEN st
    ELSE verify_refs(n,
             AndRes(st, verify_reference_field(n, st.info, rp, c, p,
                                               Head(refs)[1], Head(refs)[2])),
             rp, c, p, Tail(refs))

\* one turn of the while loop over the children of section S
verify_section_child(n, S, c, st, rp) ==
    verify_refs(n, AndRes(st, child_verify(S, c, st.info, rp \o <<S, c.name>>)),
                rp, c, rp \o <<S, c.name>>, child_refs(S, c))

\* the while loop over the children of section S, from child i on
RECURSIVE verify_section_children(_, _, _, _, _)
verify_section_children(n, S, i, st, rp) ==
    IF i > Len(n[S].ch) \/ st.fatal THEN st
    ELSE verify_section_children(n, S, i + 1,
                                 verify_section_child(n, S, n[S].ch[i], st, rp), rp)

\* a section block after its first line; o is what verify_object_field
\* returned
section_checked(n, S, rp, o) ==
    IF ~o.res THEN o
    ELSE Validate(verify_section_children(n, S, 1, Start(o.info), rp),
                  Append(rp, SectionInfoName(S)))

\* one section block of verify_single_domain; st.res is the running res
verify_section(n, S, st, rp) ==
    IF st.fatal THEN st
    ELSE IF S \notin {"coordsets", "topologies"} /\ n[S].k = "absent" THEN st
    ELSE AndRes(st, section_checked(n, S, rp,
                        verify_object_field(SecObj(n[S]), st.info, rp, S,
                                            FALSE, FALSE, 0)))

RECURSIVE verify_sections(_, _, _, _)
verify_sections(n, i, st, rp) ==
    IF i > Len(SectionNames) THEN st
    ELSE verify_sections(n, i + 1, verify_section(n, SectionNames[i], st, rp), rp)

\* one turn of the last loop: the grid_function reference of a topology
verify_grid_function(n, c, p, st, rp) ==
    AndRes(st, IF c.grid_function.k # "absent"
               THEN verify_reference_field(n, Fetch(st.info, p), rp, c, p,
                                           "grid_function", "fields")
               ELSE Start(Fetch(st.info, p)))

\* the last pass of verify_single_domain over the grid_function references
RECURSIVE verify_grid_functions(_, _, _, _)
verify_grid_functions(n, i, st, rp) ==
    IF i > Len(n.topologies.ch) \/ st.fatal THEN st
    ELSE verify_grid_functions(n, i + 1,
             verify_grid_function(n, n.topologies.ch[i],
                                  rp \o <<"topologies", n.topologies.ch[i].name>>,
                                  st, rp),
             rp)

\* the last block of verify_single_domain; st is the state after the
\* section blocks
grid_function_pass(n, st, rp) ==
    IF st.fatal \/ n.topologies.k = "absent" THEN st
    ELSE AndRes(st, Validate(verify_grid_functions(n, 1, Start(st.info), rp),
                             Append(rp, "topologies")))

verify_single_domain(n, I, rp) ==
    Validate(grid_function_pass(n, verify_sections(n, 1, Start(NodeReset(I, rp)), rp), rp),
             rp)

-----------------------------------------------------------------------------
(* mesh::verify.  The tree is [k, dom, doms]: the kind of the root, the    *)
(* sections the root carries itself, and its domain children.              *)

EmptyDomain == [S \in Range(SectionNames) |-> NoSection]

PresentSections(d) == SelectSeq(SectionNames, LAMBDA S : d[S].k # "absent")

\* the children of a root that is not a single domain: its own sections (a
\* section has no child named like a section, so as a domain it is empty),
\* then its domain children
RootChildren(m) ==
    [i \in 1..Len(PresentSections(m.dom)) |->
        [name |-> PresentSections(m.dom)[i], dom |-> EmptyDomain]] \o m.doms

RECURSIVE verify_domains(_, _, _)
verify_domains(ch, i, st) ==
    IF i > Len(ch) \/ st.fatal THEN st
    ELSE verify_domains(ch, i + 1,
             AndRes(st, verify_single_domain(ch[i].dom, Fetch(st.info, <<ch[i].name>>),
                                             <<ch[i].name>>)))

multi_domain_children_strict(m, I) ==
    IF m.k = "empty" THEN Ret(TRUE, log_info(I, <<>>), FALSE)
    ELSE IF Len(RootChildren(m)) = 0 THEN Ret(FALSE, log_error(I, <<>>), FALSE)
    ELSE verify_domains(RootChildren(m), 1, Start(I))
\* the else block of verify_multi_domain, on the info tree after the reset
multi_domain_children(m, I) ==
    IF m.k = "empty" \/ Len(RootChildren(m)) = 0
    THEN Ret(TRUE, log_info(I, <<>>), FALSE)
    ELSE verify_domains(RootChildren(m), 1, Start(I))

\* log::info(info, protocol, "is a multi domain mesh");
multi_domain_info(st) ==
    IF st.fatal THEN st ELSE Ret(st.res, log_info(st.info, <<>>), FALSE)

verify_multi_domain(m, I) ==
    IF m.k \notin {"object", "list", "empty"}
    THEN Validate(Ret(FALSE, log_error(NodeReset(I, <<>>), <<>>), FALSE), <<>>)
    ELSE Validate(multi_domain_info(multi_domain_children(m, NodeReset(I, <<>>))), <<>>)

mesh_verify(m, I) ==
    IF m.k = "object" /\ m.dom.coordsets.k # "absent"
    THEN verify_single_domain(m.dom, NodeReset(I, <<>>), <<>>)
    ELSE verify_multi_domain(m, NodeReset(I, <<>>))

-----------------------------------------------------------------------------
(* SpecVerify: the caller assembles a tree, then calls mesh::verify.       *)

MaxNodes   == 3      \* children added to the sections of the root
MaxDomains == 2      \* domain children of a multi-domain root

ChildName == [coordsets |-> <<"c1", "c2", "c3", "c4">>,
              topologies |-> <<"t1", "t2", "t3", "t4">>,
              matsets |-> <<"m1", "m2", "m3", "m4">>,
              specsets |-> <<"s1", "s2", "s3", "s4">>,
              fields |-> <<"f1", "f2", "f3", "f4">>,
              adjsets |-> <<"a1", "a2", "a3", "a4">>,
              nestsets |-> <<"n1", "n2", "n3", "n4">>]

NoElems == [k |-> "absent", n |-> 0, shape |-> Absent, connectivity |-> Absent,
            o2m |-> FALSE]
Elems(shape, conn, o2m) ==
    [k |-> "object", n |-> 2, shape |-> shape, connectivity |-> conn, o2m |-> o2m]

Topo(type, cset, gf, el, sub) ==
    [type |-> type, coordset |-> cset, grid_function |-> gf,
     elements |-> el, subelements |-> sub]

TopoChoices ==
    { Topo(Str("uniform"), Str("c1"), Absent, NoElems, NoElems),
      Topo(Str("uniform"), Str("zz"), Absent, NoElems, NoElems),
      Topo(Str("uniform"), IntLeaf, Str("f1"), NoElems, NoElems),
      Topo(Str("unstructured"), Str("c1"), Absent,
           Elems(Str("polyhedral"), IntLeaf, TRUE), Elems(Str("polygonal"), IntLeaf, TRUE)),
      Topo(Str("unstructured"), Str("c1"), Absent,
           Elems(Str("polyhedral"), IntLeaf, TRUE), Elems(IntLeaf, IntLeaf, TRUE)) }

FieldChoices ==
    { [ok |-> ok, topology |-> Str("t1"), has_values |-> TRUE,
       matset |-> Absent, has_matset_values |-> FALSE] : ok \in BOOLEAN }

ChildChoices(S) ==
    CASE S = "coordsets"  -> { [ok |-> ok] : ok \in BOOLEAN }
      [] S = "topologies" -> TopoChoices
      [] S = "matsets"    -> { [ok |-> TRUE, topology |-> Str("t1")] }
      [] S = "specsets"   -> { [ok |-> TRUE, matset |-> Str("m1")] }
      [] S = "fields"     -> FieldChoices
      [] OTHER            -> { [ok |-> ok, topology |-> Str("t1")] : ok \in BOOLEAN }

Named(c, name) == [f \in DOMAIN c \cup {"name"} |-> IF f = "name" THEN name ELSE c[f]]

\* the size of a domain: its children, and its sections without children
NumNodes(d) ==
    SumSeq([i \in 1..Len(SectionNames) |->
        IF d[SectionNames[i]].k = "absent" THEN 0
        ELSE IF d[SectionNames[i]].ch = <<>> THEN 1
        ELSE Len(d[SectionNames[i]].ch)])

\* the domains a multi-domain root is given
GoodDomain ==
    [EmptyDomain EXCEPT
        !.coordsets  = [k |-> "object", ch |-> << [name |-> "c1", ok |-> TRUE] >>],
        !.topologies = [k |-> "object", ch |->
            << Named(Topo(Str("uniform"), Str("c1"), Absent, NoElems, NoElems), "t1") >>]]
BadDomain ==
    [GoodDomain EXCEPT !.coordsets.ch = << [name |-> "c1", ok |-> FALSE] >>]
DomainChoices == {GoodDomain, BadDomain, EmptyDomain}
DomainName == <<"domain0", "domain1", "domain2", "domain3">>

InitVerify ==
    /\ mesh \in { [k |-> k, dom |-> EmptyDomain, doms |-> <<>>] :
                    k \in {"empty", "leaf", "object", "list"} }
    /\ info = EmptyInfo
    /\ vres = "none"
    /\ vfatal = FALSE
    /\ vphase = "build"
    /\ IdlePart /\ IdleConv

\* the caller adds a child to a section of the root
AddChild ==
    /\ vphase = "build"
    /\ mesh.k = "object" /\ mesh.doms = <<>>
    /\ NumNodes(mesh.dom) < MaxNodes
    /\ \E S \in Range(SectionNames) :
        /\ mesh.dom[S].k = "absent" \/ (mesh.dom[S].k = "object" /\ mesh.dom[S].ch # <<>>)
        /\ \E c \in ChildChoices(S) :
            mesh' = [mesh EXCEPT !.dom[S] =
                        [k |-> "object",
                         ch |-> Append(@.ch, Named(c, ChildName[S][Len(@.ch) + 1]))]]
    /\ UNCHANGED <<info, vres, vfatal, vphase, partVars, convVars>>

\* the caller sets a section to a node that is not an object with children
SetSection ==
    /\ vphase = "build"
    /\ mesh.k = "object" /\ mesh.doms = <<>>
    /\ NumNodes(mesh.dom) < MaxNodes
    /\ \E S \in Range(SectionNames), k \in {"object", "leaf"} :
        /\ mesh.dom[S].k = "absent"
        /\ mesh' = [mesh EXCEPT !.dom[S] = [k |-> k, ch |-> <<>>]]
    /\ UNCHANGED <<info, vres, vfatal, vphase, partVars, convVars>>

\* the caller adds a domain to a multi-domain root
AddDomain ==
    /\ vphase = "build"
    /\ mesh.k \in {"object", "list"} /\ mesh.dom = EmptyDomain
    /\ Len(mesh.doms) < MaxDomains
    /\ \E d \in DomainChoices :
        mesh' = [mesh EXCEPT !.doms =
                    Append(@, [name |-> DomainName[Len(@) + 1], dom |-> d])]
    /\ UNCHANGED <<info, vres, vfatal, vphase, partVars, convVars>>

\* what the caller holds when verify has returned v
Returned(v) ==
    /\ info' = v.info
    /\ vfatal' = v.fatal
    /\ vres' = IF v.fatal THEN "none" ELSE IF v.res THEN "true" ELSE "false"

\* the info trees a caller may still hold from the verify of a different tree
StaleInfos ==
    { mesh_verify([k |-> "object", dom |-> d, doms |-> <<>>], EmptyInfo).info :
        d \in {BadDomain} }

\* mesh::verify(mesh, info): the first call on the tree, handed the caller's
\* fresh info node or one that an earlier verify of another tree has filled
Verify ==
    /\ vphase = "build"
    /\ \E I \in {info} \cup StaleInfos : Returned(mesh_verify(mesh, I))
    /\ vphase' = "done"
    /\ UNCHANGED <<mesh, partVars, convVars>>

\* mesh::verify(mesh, info) called again, handed the info tree of the last call
VerifyAgain ==
    /\ vphase = "done"
    /\ Returned(mesh_verify(mesh, info))
    /\ vphase' = "again"
    /\ UNCHANGED <<mesh, partVars, convVars>>

NextVerify == AddChild \/ SetSection \/ AddDomain \/ Verify \/ VerifyAgain

SpecVerify == InitVerify /\ [][NextVerify]_vars

-----------------------------------------------------------------------------
(* Claims about verify                                                     *)

IsSingleDomain == mesh.k = "object" /\ mesh.dom.coordsets.k # "absent"

\* C1: whatever tree mesh::verify is handed, it returns (false for an
\* invalid tree) and never leaves through the error handler.
C1_VerifyNeverFatal ==
    vphase = "done" => vfatal = FALSE

\* C2: after verify_single_domain the root valid equals the returned
\* boolean, a section with a child whose info is invalid is itself marked
\* invalid, and info has no child that is not named like a section.
C2_SectionValid ==
    (vphase = "done" /\ ~vfatal /\ IsSingleDomain) =>
        /\ info[<<>>] = vres
        /\ \A S \in Range(SectionNames) :
              (\E i \in DOMAIN mesh.dom[S].ch :
                   /\ <<S, mesh.dom[S].ch[i].name>> \in DOMAIN info
                   /\ info[<<S, mesh.dom[S].ch[i].name>>] = "false")
              => (<<S>> \in DOMAIN info /\ info[<<S>>] = "false")
        /\ (ChildNames(info, <<>>) \ LogNames) \subseteq Range(SectionNames)

-----------------------------------------------------------------------------
(* The partition driver: generate_global_element_and_vertex_ids and        *)
(* generate_partition_field, run by every rank of the communicator.        *)
(* ranks[r] is the state of rank r (its domains, its locals, its place in  *)
(* the code), reduce the contributions handed to each collective, popts    *)
(* the options node every rank passes.                                     *)

RECURSIVE Prod(_)
Prod(s) == IF s = <<>> THEN 1 ELSE Head(s) * Prod(Tail(s))

NumRanks     == 2    \* the size of the communicator
MaxLocalDoms == 2    \* the domains one rank holds

Ranks == 0..(NumRanks - 1)

\* Node::set(DataType(.., n)): an owned buffer of n elements, zero filled
Alloc(n) == [i \in 1..n |-> 0]

\* an option of the options node: present with a value, or absent
Opt(v)   == [has |-> TRUE, v |-> v]
NoOptStr == [has |-> FALSE, v |-> ""]
NoOptInt == [has |-> FALSE, v |-> 0]

\* a topology: its name and its elements node.  has_sizes tells whether
\* elements/sizes (and offsets) exist; nper is the number of vertices of an
\* element of a fixed shape
PolyTopo(name, sizes, offsets, conn) ==
    [name |-> name, has_sizes |-> TRUE, sizes |-> sizes, offsets |-> offsets,
     conn |-> conn, nper |-> 0, edims |-> <<>>]
FixedTopo(name, nper, conn) ==
    [name |-> name, has_sizes |-> FALSE, sizes |-> <<>>, offsets |-> <<>>,
     conn |-> conn, nper |-> nper, edims |-> <<>>]
\* a topology of a structured family (uniform, rectilinear, structured): it
\* has no elements/sizes and no elements/connectivity, edims are its
\* element counts per axis
ImplicitTopo(name, edims) ==
    [name |-> name, has_sizes |-> FALSE, sizes |-> <<>>, offsets |-> <<>>,
     conn |-> <<>>, nper |-> 0, edims |-> edims]

\* a domain: its topologies in order, the length of coordsets/<c>/values/x,
\* the dimension of the coordset, its fields, and the topology paths a
\* non-const fetch has created
Domain(topos, nverts) ==
    [topos |-> topos, nverts |-> nverts, has_x |-> TRUE, dims |-> 2,
     fields |-> <<>>, created |-> {}]
\* a domain whose coordset is uniform: it has no values/x
UniformCoordsDomain(topos) == [Domain(topos, 0) EXCEPT !.has_x = FALSE]

\* dom["topologies"].has_child(topo_name)
has_topo(dom, name) == \E i \in DOMAIN dom.topos : dom.topos[i].name = name

\* dom["topologies"][topo_name]
topo_of(dom, name) ==
    dom.topos[CHOOSE i \in DOMAIN dom.topos : dom.topos[i].name = name]

\* blueprint::mesh::utils::topology::length
topology_length(t) ==
    IF t.edims # <<>> THEN Prod(t.edims)
    ELSE IF t.has_sizes THEN Len(t.sizes) ELSE Len(t.conn) \div t.nper

\* a collective: every rank hands in a contribution, and leaves once all have
Collectives == {"nd1", "rv", "re", "nd2", "rc", "pm"}
NotPosted == <<>>
AllPosted(c) == \A r \in Ranks : reduce[c][r] # NotPosted

\* mpi::mesh::number_of_domains(mesh, comm): the sum of the local counts
number_of_domains(c) == SumSeq([i \in 1..NumRanks |-> reduce[c][i - 1][1]])

MaxOf(S) == CHOOSE m \in S : \A n \in S : n <= m

\* relay::mpi::max_all_reduce: the element-wise maximum over the ranks
max_all_reduce(c) ==
    [i \in 1..NumRanks |-> MaxOf({ reduce[c][r][i] : r \in Ranks })]

\* max_local: a zero filled buffer with the rank's own slot set
OwnSlot(r, v) == [Alloc(NumRanks) EXCEPT ![r + 1] = v]

\* for(i = 0; i < par_rank; i++) offset += max_global_vals[i];
\* the same loop with the bound i <= par_rank
global_offset_inclusive(max_global, r) == SumSeq(SubSeq(max_global, 1, r + 1))

global_offset(max_global, r) == SumSeq(SubSeq(max_global, 1, r))

\* the state of a rank before it enters the driver
RankInit(doms) ==
    [pc |-> "start", doms |-> doms, topo_name |-> "", field_prefix |-> "",
     num_verts |-> <<>>, num_eles |-> <<>>, verts_offsets |-> <<>>, eles_offsets |-> <<>>,
     total_num_verts |-> 0, total_num_eles |-> 0,
     global_verts_offset |-> 0, global_eles_offset |-> 0, ids_done |-> FALSE,
     nparts |-> 0, ncommonnodes |-> 0,
     local_total_num_eles |-> 0, local_total_ele_to_verts_size |-> 0,
     eldist |-> <<>>, eptr |-> <<>>, eind |-> <<>>,
     eptr_idx |-> 0, eind_idx |-> 0, curr_offset |-> 0,
     part |-> <<>>, part_vals_idx |-> 0]

\* the names a read through domains[0] of an empty domain list can yield
GarbageNames == {"t", "garbage"}

\* options.has_child("topology") ? options["topology"] :
\* domains[0]->fetch("topologies")[0].name(); the set of its outcomes
parse_topology(s) ==
    IF popts.topology.has THEN { [s EXCEPT !.topo_name = popts.topology.v] }
    ELSE IF s.doms = <<>>
         THEN { [s EXCEPT !.pc = "crashed"] }
              \cup { [s EXCEPT !.topo_name = g] : g \in GarbageNames }
    ELSE IF s.doms[1].topos = <<>> THEN { [s EXCEPT !.pc = "fatal"] }
    ELSE { [s EXCEPT !.topo_name = s.doms[1].topos[1].name] }

\* if(options.has_child("field_prefix")) field_prefix = ...
parse_field_prefix(s) ==
    IF popts.field_prefix.has THEN [s EXCEPT !.field_prefix = popts.field_prefix.v] ELSE s

\* the body of the counting loop of generate_global_element_and_vertex_ids;
\* the const fetch of values/x is fatal when the coordset has no such child
count_domain(dom, i, s) ==
    IF s.pc = "fatal" \/ ~has_topo(dom, s.topo_name) THEN s
    ELSE IF ~dom.has_x
    THEN [s EXCEPT !.pc = "fatal",
                   !.num_eles[i] = topology_length(topo_of(dom, s.topo_name)),
                   !.eles_offsets[i] = s.total_num_eles,
                   !.total_num_eles = @ + topology_length(topo_of(dom, s.topo_name))]
    ELSE [s EXCEPT !.num_eles[i] = topology_length(topo_of(dom, s.topo_name)),
                   !.eles_offsets[i] = s.total_num_eles,
                   !.total_num_eles = @ + topology_length(topo_of(dom, s.topo_name)),
                   !.num_verts[i] = dom.nverts,
                   !.verts_offsets[i] = s.total_num_verts,
                   !.total_num_verts = @ + dom.nverts]

RECURSIVE count_domains(_, _)
count_domains(i, s) ==
    IF i > Len(s.doms) THEN s
    ELSE count_domains(i + 1, count_domain(s.doms[i], i, s))

\* local_info: four zero filled arrays of local_num_doms entries
alloc_local_info(s) ==
    [s EXCEPT !.num_verts = Alloc(Len(s.doms)), !.num_eles = Alloc(Len(s.doms)),
              !.verts_offsets = Alloc(Len(s.doms)), !.eles_offsets = Alloc(Len(s.doms))]

\* a field node: association, topology and values
Field(assoc, topo, values) == [association |-> assoc, topology |-> topo, values |-> values]

\* the body of the loop that writes the two id fields of a domain
write_ids(dom, i, s) ==
    IF has_topo(dom, s.topo_name)
    THEN [dom EXCEPT !.fields =
            (s.field_prefix \o "global_vertex_ids" :>
                Field("vertex", s.topo_name,
                      [k \in 1..s.num_verts[i] |->
                          (k - 1) + s.global_verts_offset + s.verts_offsets[i]]))
            @@ (s.field_prefix \o "global_element_ids" :>
                Field("element", s.topo_name,
                      [k \in 1..s.num_eles[i] |->
                          (k - 1) + s.global_eles_offset + s.eles_offsets[i]]))
            @@ dom.fields]
    ELSE dom

write_all_ids(s) ==
    [s EXCEPT !.doms = [i \in DOMAIN s.doms |-> write_ids(s.doms[i], i, s)],
              !.ids_done = TRUE]

\* ncommonnodes: the option, or the dimension of the coordset that the
\* topology of domains[0] names; the set of its outcomes
parse_ncommonnodes(s) ==
    IF s.pc \in {"crashed", "fatal"} THEN {s}
    ELSE IF popts.parmetis_ncommonnodes.has
    THEN { [s EXCEPT !.ncommonnodes = popts.parmetis_ncommonnodes.v] }
    ELSE IF s.doms = <<>>
         THEN { [s EXCEPT !.pc = "crashed"] } \cup { [s EXCEPT !.ncommonnodes = 2] }
    ELSE IF ~has_topo(s.doms[1], s.topo_name)
         THEN \* the fetch creates the path, as_string() of the empty leaf is fatal
              { [s EXCEPT !.pc = "fatal", !.doms[1].created = @ \cup {s.topo_name}] }
    ELSE { [s EXCEPT !.ncommonnodes = s.doms[1].dims] }

\* nparts = global_num_doms, or options["partitions"]
parse_partitions(s, global_num_doms) ==
    [s EXCEPT !.nparts = IF popts.partitions.has THEN popts.partitions.v
                         ELSE global_num_doms]

\* the body of the counting loop of generate_partition_field; the const
\* fetch of elements/sizes is fatal when the topology has no such child
count_sizes(dom, s) ==
    IF s.pc = "fatal" \/ ~has_topo(dom, s.topo_name) THEN s
    ELSE IF ~topo_of(dom, s.topo_name).has_sizes
         THEN [s EXCEPT !.pc = "fatal",
                        !.local_total_num_eles =
                            @ + topology_length(topo_of(dom, s.topo_name))]
    ELSE [s EXCEPT !.local_total_num_eles =
                       @ + topology_length(topo_of(dom, s.topo_name)),
                   !.local_total_ele_to_verts_size =
                       @ + SumSeq(topo_of(dom, s.topo_name).sizes)]

RECURSIVE count_all_sizes(_, _)
count_all_sizes(i, s) ==
    IF i > Len(s.doms) THEN s
    ELSE count_all_sizes(i + 1, count_sizes(s.doms[i], s))

\* parmetis_params: eldist, eptr, eind and part, zero filled
alloc_parmetis_params(s) ==
    IF s.pc = "fatal" THEN s
    ELSE [s EXCEPT !.eldist = Alloc(NumRanks + 1),
                   !.eptr = Alloc(s.local_total_num_eles + 1),
                   !.eind = Alloc(s.local_total_ele_to_verts_size),
                   !.part = Alloc(s.local_total_num_eles)]

\* the same loop writing the count of rank i alone
eldist_counts(eldist, counts, i) ==
    IF i > Len(counts) THEN eldist
    ELSE [j \in DOMAIN eldist |-> IF j = 1 THEN 0 ELSE counts[j - 1]]

\* eldist_vals[0] = 0; eldist_vals[i+1] = eldist_vals[i] + el_counts_global_vals[i];
RECURSIVE eldist_prefix(_, _, _)
eldist_prefix(eldist, counts, i) ==
    IF i > Len(counts) THEN eldist
    ELSE eldist_prefix([eldist EXCEPT ![i + 1] = eldist[i] + counts[i]], counts, i + 1)

\* the same loop adding the size before it stores the offset
RECURSIVE eptr_sizes_late(_, _, _)
eptr_sizes_late(sizes, i, s) ==
    IF i > Len(sizes) THEN s
    ELSE eptr_sizes_late(sizes, i + 1,
             [s EXCEPT !.eptr[s.eptr_idx + 1] = s.curr_offset + sizes[i],
                       !.curr_offset = @ + sizes[i],
                       !.eptr_idx = @ + 1])

\* eptr_vals[eptr_idx] = curr_offset; curr_offset += sizes_vals[i]; eptr_idx++;
RECURSIVE eptr_sizes(_, _, _)
eptr_sizes(sizes, i, s) ==
    IF i > Len(sizes) THEN s
    ELSE eptr_sizes(sizes, i + 1,
             [s EXCEPT !.eptr[s.eptr_idx + 1] = s.curr_offset,
                       !.curr_offset = @ + sizes[i],
                       !.eptr_idx = @ + 1])

\* add last offset
eptr_last(s) == [s EXCEPT !.eptr[s.eptr_idx + 1] = s.curr_offset]

\* O2MIterator over elements: the data index of the j-th of element e is
\* offsets[e] + j (counted from 0); the connectivity entry there is the
\* local vertex whose global id goes to eind
RECURSIVE eind_many(_, _, _, _, _)
eind_many(t, gv, e, j, s) ==
    IF j > t.sizes[e] THEN s
    ELSE eind_many(t, gv, e, j + 1,
             [s EXCEPT !.eind[s.eind_idx + 1] = gv[t.conn[t.offsets[e] + j] + 1],
                       !.eind_idx = @ + 1])

RECURSIVE eind_one(_, _, _, _)
eind_one(t, gv, e, s) ==
    IF e > Len(t.sizes) THEN s
    ELSE eind_one(t, gv, e + 1, eind_many(t, gv, e, 1, s))

\* the body of the loop that fills eptr and eind
assemble_domain(dom, s) ==
    IF has_topo(dom, s.topo_name)
    THEN eind_one(topo_of(dom, s.topo_name),
                  dom.fields[s.field_prefix \o "global_vertex_ids"].values, 1,
                  eptr_last(eptr_sizes(topo_of(dom, s.topo_name).sizes, 1, s)))
    ELSE s

RECURSIVE assemble_domains(_, _)
assemble_domains(i, s) ==
    IF i > Len(s.doms) THEN s
    ELSE assemble_domains(i + 1, assemble_domain(s.doms[i], s))

\* the partitioner's answers for E elements and nparts parts
PartChoices(E, nparts) ==
    { [i \in 1..E |-> (i - 1) % nparts],
      [i \in 1..E |-> (nparts - 1) - ((i - 1) % nparts)] }

\* the same loop body reading part from its start in every domain
writeback_restart(i, s) ==
    IF has_topo(s.doms[i], s.topo_name)
    THEN [s EXCEPT
            !.doms[i].fields =
                (s.field_prefix \o "parmetis_result" :>
                    Field("element", s.topo_name,
                          [k \in 1..topology_length(topo_of(s.doms[i], s.topo_name)) |->
                              s.part[k]]))
                @@ @,
            !.part_vals_idx = @ + topology_length(topo_of(s.doms[i], s.topo_name))]
    ELSE s

\* the body of the loop that writes the parmetis_result field of a domain
writeback_domain(i, s) ==
    IF has_topo(s.doms[i], s.topo_name)
    THEN [s EXCEPT
            !.doms[i].fields =
                (s.field_prefix \o "parmetis_result" :>
                    Field("element", s.topo_name,
                          [k \in 1..topology_length(topo_of(s.doms[i], s.topo_name)) |->
                              s.part[s.part_vals_idx + k]]))
                @@ @,
            !.part_vals_idx = @ + topology_length(topo_of(s.doms[i], s.topo_name))]
    ELSE s

RECURSIVE writeback_domains(_, _)
writeback_domains(i, s) ==
    IF i > Len(s.doms) THEN s
    ELSE writeback_domains(i + 1, writeback_domain(i, s))

-----------------------------------------------------------------------------
(* SpecPart: every rank runs generate_partition_field on its domains.      *)

TriTopo   == PolyTopo("t", <<3>>, <<0>>, <<0, 1, 2>>)
TwoTopo   == PolyTopo("t", <<3, 4>>, <<4, 0>>, <<0, 1, 2, 3, 1, 2, 3>>)
OtherTopo == PolyTopo("u", <<3>>, <<0>>, <<2, 1, 0>>)
QuadTopo  == FixedTopo("t", 4, <<0, 1, 2, 3>>)

TriDomain   == Domain(<<TriTopo>>, 3)
TwoDomain   == Domain(<<OtherTopo, TwoTopo>>, 4)
OtherDomain == Domain(<<OtherTopo>>, 3)
QuadDomain  == Domain(<<QuadTopo>>, 4)

\* domains of the structured families, 2 x 2 elements on 3 x 3 vertices: a
\* uniform one (no values/x), a rectilinear one (values/x is the x axis) and
\* a structured one (explicit coordinates)
ImplicitGrid      == ImplicitTopo("t", <<2, 2>>)
UniformDomain     == UniformCoordsDomain(<<ImplicitGrid>>)
RectilinearDomain == Domain(<<ImplicitGrid>>, 3)
StructuredDomain  == Domain(<<ImplicitGrid>>, 9)
StructuredFamily  == {UniformDomain, RectilinearDomain, StructuredDomain}

\* rank 0 holds one domain of a structured family, the others none or a
\* triangle
GridRanks ==
    { [r \in Ranks |-> RankInit(IF r = 0 THEN <<d>> ELSE l)] :
        d \in StructuredFamily, l \in {<<>>, <<TriDomain>>} }

\* the domain lists a rank is handed
DomainLists ==
    { l \in { <<>>, <<TriDomain>>, <<TwoDomain>>, <<QuadDomain>>,
              <<TriDomain, TwoDomain>>, <<OtherDomain, TriDomain>>,
              <<TwoDomain, OtherDomain, TriDomain>> } :
        Len(l) <= MaxLocalDoms }

Options(topology, field_prefix, partitions, parmetis_ncommonnodes) ==
    [topology |-> topology, field_prefix |-> field_prefix,
     partitions |-> partitions, parmetis_ncommonnodes |-> parmetis_ncommonnodes]

\* the options nodes the ranks are handed
OptionChoices ==
    { Options(NoOptStr, NoOptStr, NoOptInt, NoOptInt),
      Options(Opt("t"), NoOptStr, NoOptInt, NoOptInt),
      Options(Opt("t"), Opt("p_"), Opt(2), Opt(2)),
      Options(Opt("zz"), NoOptStr, NoOptInt, NoOptInt),
      Options(Opt("zz"), NoOptStr, NoOptInt, Opt(2)) }

InitPart ==
    /\ ranks \in [Ranks -> { RankInit(l) : l \in DomainLists }] \cup GridRanks
    /\ reduce = [c \in Collectives |-> [r \in Ranks |-> NotPosted]]
    /\ popts \in OptionChoices
    /\ IdleVerify /\ IdleConv

\* the rank moves on to state s and hands v to the collective c
Post(r, s, c, v) ==
    /\ ranks' = [ranks EXCEPT ![r] = s]
    /\ reduce' = [reduce EXCEPT ![c][r] = v]

\* the rank moves on to state s and enters no collective
Stay(r, s) ==
    /\ ranks' = [ranks EXCEPT ![r] = s]
    /\ UNCHANGED reduce

At(s, pc) == [s EXCEPT !.pc = pc]

\* the rank enters the driver: number_of_domains(mesh, comm)
Enter(r) ==
    /\ ranks[r].pc = "start"
    /\ Post(r, At(ranks[r], "nd1"), "nd1", <<Len(ranks[r].doms)>>)
    /\ UNCHANGED <<popts, verifyVars, convVars>>

\* the counting loop has left the rank in state c: it hands its vertex count
\* to the reduction unless a fetch was fatal
CountedPosted(r, c) ==
    IF c.pc = "fatal" THEN Stay(r, c)
    ELSE Post(r, At(c, "rv"), "rv", OwnSlot(r, c.total_num_verts))

\* the options are read and the local elements and vertices counted; s is
\* the state after the topology option is read
Counted(r, s) ==
    IF s.pc # "nd1" THEN Stay(r, s)
    ELSE CountedPosted(r, count_domains(1, alloc_local_info(parse_field_prefix(s))))

GlobalIdsCount_always(r) ==
    /\ ranks[r].pc = "nd1" /\ AllPosted("nd1")
    /\ \E s \in parse_topology(ranks[r]) : Counted(r, s)
    /\ UNCHANGED <<popts, verifyVars, convVars>>
\* generate_global_element_and_vertex_ids up to the reduction of the vertex
\* counts; with no domain anywhere it returns, and so does the driver after
\* its own number_of_domains
GlobalIdsCount(r) ==
    /\ ranks[r].pc = "nd1" /\ AllPosted("nd1")
    /\ IF number_of_domains("nd1") = 0
       THEN Post(r, At([ranks[r] EXCEPT !.ids_done = TRUE], "nd2"), "nd2",
                 <<Len(ranks[r].doms)>>)
       ELSE \E s \in parse_topology(ranks[r]) : Counted(r, s)
    /\ UNCHANGED <<popts, verifyVars, convVars>>

\* the vertex offset of the rank, then the reduction of the element counts
VertsReduced(r) ==
    /\ ranks[r].pc = "rv" /\ AllPosted("rv")
    /\ Post(r, [ranks[r] EXCEPT !.pc = "re",
                    !.global_verts_offset = global_offset(max_all_reduce("rv"), r)],
            "re", OwnSlot(r, ranks[r].total_num_eles))
    /\ UNCHANGED <<popts, verifyVars, convVars>>

\* the element offset of the rank and the id fields; the driver goes on to
\* its own number_of_domains
ElesReduced(r) ==
    /\ ranks[r].pc = "re" /\ AllPosted("re")
    /\ Post(r, At(write_all_ids([ranks[r] EXCEPT
                    !.global_eles_offset = global_offset(max_all_reduce("re"), r)]), "nd2"),
            "nd2", <<Len(ranks[r].doms)>>)
    /\ UNCHANGED <<popts, verifyVars, convVars>>

\* the options of generate_partition_field; the set of the outcomes
parse_options(s, global_num_doms) ==
    { IF s2.pc # "nd2" THEN s2
      ELSE parse_partitions(parse_field_prefix(s2), global_num_doms) :
        s2 \in UNION { parse_ncommonnodes(s1) : s1 \in parse_topology(s) } }

\* the arrays are sized and the element count handed to the reduction; s is
\* the state after the counting loop
Sized(r, s) ==
    IF s.pc # "nd2" THEN Stay(r, s)
    ELSE Post(r, At(s, "rc"), "rc", OwnSlot(r, s.local_total_num_eles))

\* generate_partition_field from its number_of_domains up to the reduction
\* of the element counts
PartitionCount(r) ==
    /\ ranks[r].pc = "nd2" /\ AllPosted("nd2")
    /\ IF number_of_domains("nd2") = 0
       THEN Stay(r, At(ranks[r], "returned"))
       ELSE \E s \in parse_options(ranks[r], number_of_domains("nd2")) :
                Sized(r, IF s.pc # "nd2" THEN s
                         ELSE alloc_parmetis_params(count_all_sizes(1, s)))
    /\ UNCHANGED <<popts, verifyVars, convVars>>

\* eldist, eptr and eind are filled and the partitioner is called
Assemble(r) ==
    /\ ranks[r].pc = "rc" /\ AllPosted("rc")
    /\ Post(r, At(assemble_domains(1,
                    [ranks[r] EXCEPT !.eldist =
                        eldist_prefix([@ EXCEPT ![1] = 0], max_all_reduce("rc"), 1)]),
                  "pm"),
            "pm", <<1>>)
    /\ UNCHANGED <<popts, verifyVars, convVars>>

\* the partitioner returns part, and the rank writes the result fields
Partitioned(r) ==
    /\ ranks[r].pc = "pm" /\ AllPosted("pm")
    /\ \E p \in PartChoices(ranks[r].local_total_num_eles, ranks[r].nparts) :
        Stay(r, At(writeback_domains(1, [ranks[r] EXCEPT !.part = p]), "done"))
    /\ UNCHANGED <<popts, verifyVars, convVars>>

NextPart ==
    \E r \in Ranks :
        \/ Enter(r)
        \/ GlobalIdsCount(r)
        \/ VertsReduced(r)
        \/ ElesReduced(r)
        \/ PartitionCount(r)
        \/ Assemble(r)
        \/ Partitioned(r)

SpecPart == InitPart /\ [][NextPart]_vars

-----------------------------------------------------------------------------
(* Claims about the partition driver                                       *)

\* the local domains of a rank that carry the topology it chose, in order
Carriers(s) == SelectSeq(s.doms, LAMBDA d : has_topo(d, s.topo_name))

\* the number of elements of the chosen topology the rank holds
LocalElems(s) ==
    SumSeq([k \in 1..Len(Carriers(s)) |->
               topology_length(topo_of(Carriers(s)[k], s.topo_name))])

\* the number of vertices of the domains that carry the chosen topology
LocalVerts(s) == SumSeq([k \in 1..Len(Carriers(s)) |-> Carriers(s)[k].nverts])

\* the values of the field {prefix}base of every carrier of the rank, in order
FieldValues(s, base) ==
    [k \in 1..Len(Carriers(s)) |-> Carriers(s)[k].fields[s.field_prefix \o base].values]

\* C3: on a rank that has returned from generate_partition_field, the
\* parmetis_result values of its domains that carry the chosen topology,
\* put end to end in domain order, are the partitioner's array part, which
\* has one entry per local element, each read once, and every value is a
\* partition number below nparts.
C3_PartitionWriteback ==
    \A r \in Ranks :
        ranks[r].pc = "done" =>
            /\ Flatten(FieldValues(ranks[r], "parmetis_result")) = ranks[r].part
            /\ Len(ranks[r].part) = LocalElems(ranks[r])
            /\ ranks[r].part_vals_idx = LocalElems(ranks[r])
            /\ \A i \in DOMAIN ranks[r].part :
                   ranks[r].part[i] \in 0..(ranks[r].nparts - 1)

C3_Witness ==
    \E r \in Ranks :
        /\ ranks[r].pc = "done"
        /\ Len(Carriers(ranks[r])) >= 2
        /\ Len(ranks[r].part) >= 3
        /\ \E i, j \in DOMAIN ranks[r].part : ranks[r].part[i] # ranks[r].part[j]

\* the id arrays of the mesh: rank r, k-th carrier of the rank
IdArrays == UNION { { <<r, k>> : k \in 1..Len(Carriers(ranks[r])) } : r \in Ranks }
IdValues(base, a) == FieldValues(ranks[a[1]], base)[a[2]]
IdsOf(base, a) == Range(IdValues(base, a))
IdCount(base, a) ==
    IF base = "global_vertex_ids" THEN Carriers(ranks[a[1]])[a[2]].nverts
    ELSE topology_length(topo_of(Carriers(ranks[a[1]])[a[2]], ranks[a[1]].topo_name))
IdTotal(base) ==
    SumSeq([i \in 1..NumRanks |->
               IF base = "global_vertex_ids" THEN LocalVerts(ranks[i - 1])
               ELSE LocalElems(ranks[i - 1])])

C5_Eldist ==
    \A r \in Ranks :
        ranks[r].pc \in {"pm", "done"} =>
            /\ Len(ranks[r].eldist) = NumRanks + 1
            /\ ranks[r].eldist[1] = 0
            /\ \A q \in Ranks :
                   ranks[r].eldist[q + 2] - ranks[r].eldist[q + 1] = LocalElems(ranks[q])
            /\ ranks[r].eldist[NumRanks + 1] = IdTotal("global_element_ids")
            /\ ranks[r].eldist[r + 1] = ranks[r].global_eles_offset
            /\ \A q \in Ranks :
                   ranks[q].pc \in {"pm", "done"} => ranks[q].eldist = ranks[r].eldist

C5_Witness ==
    /\ \E r \in Ranks : ranks[r].pc = "pm" /\ ranks[r].eldist[NumRanks + 1] >= 3
    /\ \A q \in Ranks : LocalElems(ranks[q]) >= 1

\* the sizes of the local elements of the chosen topology, domain by domain
SizesFlat(s) ==
    Flatten([k \in 1..Len(Carriers(s)) |-> topo_of(Carriers(s)[k], s.topo_name).sizes])

\* for every element of topology t of domain d, the global ids of its
\* vertices in the order of the connectivity
ElemVerts(d, t, gv) ==
    [e \in 1..Len(t.sizes) |->
        [j \in 1..t.sizes[e] |-> gv[t.conn[t.offsets[e] + j] + 1]]]

ElemGlobalVerts(s) ==
    Flatten([k \in 1..Len(Carriers(s)) |->
        ElemVerts(Carriers(s)[k], topo_of(Carriers(s)[k], s.topo_name),
                  Carriers(s)[k].fields[s.field_prefix \o "global_vertex_ids"].values)])

\* C6: a rank that has filled eptr and eind holds an eptr of E_local + 1
\* entries that starts at 0 and grows from element to element by the size
\* of the element (the elements counted through the carriers in order), its
\* last entry is the number of entries written to eind, and the entries of
\* eind between two eptr entries are the global ids of the element's
\* vertices in connectivity order.
C6_EptrEind ==
    \A r \in Ranks :
        ranks[r].pc \in {"pm", "done"} =>
            /\ Len(SizesFlat(ranks[r])) = LocalElems(ranks[r])
            /\ Len(ranks[r].eptr) = LocalElems(ranks[r]) + 1
            /\ ranks[r].eptr[1] = 0
            /\ \A e \in 1..LocalElems(ranks[r]) :
                   ranks[r].eptr[e + 1] - ranks[r].eptr[e] = SizesFlat(ranks[r])[e]
            /\ ranks[r].eptr[LocalElems(ranks[r]) + 1] = ranks[r].eind_idx
            /\ ranks[r].eind_idx = Len(ranks[r].eind)
            /\ \A e \in 1..LocalElems(ranks[r]) :
                   SubSeq(ranks[r].eind, ranks[r].eptr[e] + 1, ranks[r].eptr[e + 1])
                       = ElemGlobalVerts(ranks[r])[e]

C6_Witness ==
    \E r \in Ranks :
        /\ ranks[r].pc = "pm"
        /\ Len(Carriers(ranks[r])) = 2
        /\ LocalElems(ranks[r]) = 3
        /\ ranks[r].global_verts_offset > 0

-----------------------------------------------------------------------------
(* Coordset and topology converters.                                       *)
(* A coordset is [type, dims, origin, spacing, values]: the per-axis       *)
(* entries of each child in axis order, <<>> for a child it does not have. *)
(* A grid topology is [type, edims, origin].                               *)


\* the stride of axis d (0-based): dims[0] * ... * dims[d-1]
dstride(dims, d) == Prod(SubSeq(dims, 1, d))

grid_ijk_to_id(ijk, dims) ==
    SumSeq([d \in 1..3 |-> ijk[d] * dstride(dims, d - 1)])

grid_id_to_ijk(id, dims) ==
    LET k  == id \div dstride(dims, 2)
        r2 == id % dstride(dims, 2)
        j  == r2 \div dstride(dims, 1)
        r1 == r2 % dstride(dims, 1)
    IN  <<r1 \div dstride(dims, 0), j, k>>

\* bputils::coordset::axes: the number of axes of the coordinate system
axes(cs) == IF cs.type = "uniform" THEN Len(cs.dims) ELSE Len(cs.values)

dim_lens(base_type, cs) ==
    [i \in 1..axes(cs) |->
        IF base_type = "rectilinear" THEN Len(cs.values[i]) ELSE cs.dims[i]]

\* the value written for index d (1-based) of axis i
src_cvals(base_type, cs, i, len) ==
    [d \in 1..len |->
        IF base_type = "rectilinear" THEN cs.values[i][d]
        ELSE (IF cs.origin # <<>> THEN cs.origin[i] ELSE 0)
             + (d - 1) * (IF cs.spacing # <<>> THEN cs.spacing[i] ELSE 1)]

dim_block_size(lens, i)  == Prod(SubSeq(lens, 1, i - 1))
dim_block_count(lens, i) == Prod(SubSeq(lens, i + 1, Len(lens)))

boffset_dense(b, bs, len) == b * bs
boffset(b, bs, len) == b * bs * len

\* the three write loops over one destination array of coords_len entries:
\* entry k holds the value of the last iteration <<d, b, bi>> that wrote it
explicit_axis(vals, bs, bc, coords_len) ==
    LET iters   == (0..(Len(vals) - 1)) \X (0..(bc - 1)) \X (0..(bs - 1))
        ioffset(t) == t[1] * bs + boffset(t[2], bs, Len(vals)) + t[3]
        order(t)   == (t[1] * bc + t[2]) * bs + t[3]
        hits(k)    == {t \in iters : ioffset(t) = k}
        last(k)    == CHOOSE t \in hits(k) : \A u \in hits(k) : order(u) <= order(t)
    IN  [k \in 1..coords_len |->
            IF hits(k - 1) = {} THEN 0 ELSE vals[last(k - 1)[1] + 1]]

explicit_values(base_type, cs, lens) ==
    [i \in 1..axes(cs) |->
        explicit_axis(src_cvals(base_type, cs, i, lens[i]),
                      dim_block_size(lens, i), dim_block_count(lens, i),
                      Prod(lens))]

convert_coordset_to_explicit(base_type, cs) ==
    [type |-> "explicit", dims |-> <<>>, origin |-> <<>>, spacing |-> <<>>,
     values |-> explicit_values(base_type, cs, dim_lens(base_type, cs))]

\* index_t edims_axes[3] = {1, 1, 1}, then one entry per axis
edims_axes(base_type, topo, cs) ==
    [i \in 1..3 |->
        IF i > axes(cs) THEN 1
        ELSE IF base_type = "structured" THEN topo.edims[i]
        ELSE IF base_type = "rectilinear" THEN Len(cs.values[i]) - 1
        ELSE cs.dims[i] - 1]

vdims_as_edims(edims) == edims
vdims_axes(edims) == [d \in 1..3 |-> edims[d] + 1]

\* curr_vert for local index i of the element at curr_elem
curr_vert(curr_elem, i, n) ==
    [d \in 1..3 |->
        curr_elem[d] + (IF d <= n THEN (i \div (2 ^ (d - 1))) % 2 ELSE 0)]

elem_conn(e, edims, n) ==
    [i \in 1..(2 ^ n) |->
        grid_ijk_to_id(curr_vert(grid_id_to_ijk(e, edims), i - 1, n),
                       vdims_axes(edims))]

\* the inversion loop: p = 2, 6, ... swaps entries p and p + 1 (0-based)
invert_elem(c) ==
    LET starts == {p \in 2..(Len(c) - 1) : (p - 2) % 4 = 0}
    IN  [q \in 1..Len(c) |->
            IF (q - 1) \in starts THEN c[q + 1]
            ELSE IF (q - 2) \in starts THEN c[q - 1]
            ELSE c[q]]

elements_connectivity(edims, n) ==
    Flatten([e \in 1..Prod(edims) |-> invert_elem(elem_conn(e - 1, edims, n))])

elements_shape(n) ==
    IF n = 1 THEN "line" ELSE IF n = 2 THEN "quad" ELSE IF n = 3 THEN "hex" ELSE ""

convert_topology_to_unstructured(base_type, topo, cs, cname) ==
    [dest  |-> [type |-> "unstructured", coordset |-> cname,
                origin |-> topo.origin, shape |-> elements_shape(axes(cs)),
                connectivity |->
                    elements_connectivity(edims_axes(base_type, topo, cs), axes(cs))],
     cdest |-> IF base_type = "structured" THEN cs
               ELSE convert_coordset_to_explicit(base_type, cs)]

-----------------------------------------------------------------------------
(* Unstructured topologies: [type, coordset, origin, shape, connectivity]. *)

\* ShapeType: dimension, indices per element, and the embedded entities
ShapeType(shape) ==
    CASE shape = "point" -> [dim |-> 0, indices |-> 1, embed_count |-> 0,
                             embed |-> "", embedding |-> <<>>]
      [] shape = "line"  -> [dim |-> 1, indices |-> 2, embed_count |-> 2,
                             embed |-> "point", embedding |-> <<0, 1>>]
      [] shape = "tri"   -> [dim |-> 2, indices |-> 3, embed_count |-> 3,
                             embed |-> "line", embedding |-> <<0,1, 1,2, 2,0>>]
      [] shape = "quad"  -> [dim |-> 2, indices |-> 4, embed_count |-> 4,
                             embed |-> "line",
                             embedding |-> <<0,1, 1,2, 2,3, 3,0>>]
      [] shape = "tet"   -> [dim |-> 3, indices |-> 4, embed_count |-> 4,
                             embed |-> "tri",
                             embedding |-> <<0,2,1, 0,1,3, 0,3,2, 1,2,3>>]
      [] shape = "hex"   -> [dim |-> 3, indices |-> 8, embed_count |-> 6,
                             embed |-> "quad",
                             embedding |-> <<0,3,2,1, 0,1,5,4, 1,2,6,5,
                                             2,3,7,6, 3,0,4,7, 4,5,6,7>>]
      [] shape = "polygonal"  -> [dim |-> 2, indices |-> 0, embed_count |-> 0,
                                  embed |-> "line", embedding |-> <<>>]
      [] shape = "polyhedral" -> [dim |-> 3, indices |-> 0, embed_count |-> 0,
                                  embed |-> "polygonal", embedding |-> <<>>]

\* offsets of a one-to-many relation: the running sum of its sizes
generate_offsets(sizes) == [i \in 1..Len(sizes) |-> SumSeq(SubSeq(sizes, 1, i - 1))]

\* face_indices of face fi of element ei (both 0-based), m indices per face
face_indices(conn, shp, m, ei, fi) ==
    [ii \in 1..m |-> conn[shp.indices * ei + shp.embedding[fi * m + ii] + 1]]

\* std::is_permutation on two ranges of the same length
is_permutation(a, b) ==
    \A v \in Range(a) \cup Range(b) :
        Cardinality({i \in DOMAIN a : a[i] = v})
            = Cardinality({i \in DOMAIN b : b[i] = v})

\* the search loop: the first stored face that is a permutation of face,
\* or the number of stored faces when there is none
find_face(polygonal_conn_data, m, face) ==
    LET n     == Len(polygonal_conn_data) \div m
        found == {p \in 0..(n - 1) :
                     is_permutation(SubSeq(polygonal_conn_data, p * m + 1, p * m + m),
                                    face)}
    IN  IF found = {} THEN n ELSE CHOOSE p \in found : \A q \in found : p <= q

add_face(acc, m, face) ==
    [conn |-> Append(acc.conn, find_face(acc.sub, m, face)),
     sub  |-> IF find_face(acc.sub, m, face) = Len(acc.sub) \div m
              THEN acc.sub \o face ELSE acc.sub]

\* the loops over ei and fi; n counts the faces handled so far
RECURSIVE polyhedral_faces(_, _, _, _, _)
polyhedral_faces(conn, shp, m, n, acc) ==
    IF n >= (Len(conn) \div shp.indices) * shp.embed_count THEN acc
    ELSE polyhedral_faces(conn, shp, m, n + 1,
             add_face(acc, m,
                      face_indices(conn, shp, m, n \div shp.embed_count,
                                   n % shp.embed_count)))

polyhedral(topo, shp, m, f) ==
    [type |-> topo.type, coordset |-> topo.coordset, origin |-> topo.origin,
     shape |-> "polyhedral", connectivity |-> f.conn,
     sizes |-> [e \in 1..(Len(topo.connectivity) \div shp.indices) |-> shp.embed_count],
     offsets |-> generate_offsets(
         [e \in 1..(Len(topo.connectivity) \div shp.indices) |-> shp.embed_count]),
     subelements |->
        [shape |-> "polygonal", connectivity |-> f.sub,
         sizes |-> [p \in 1..(Len(f.sub) \div m) |-> m],
         offsets |-> generate_offsets([p \in 1..(Len(f.sub) \div m) |-> m])]]

polygonal(topo, shp) ==
    [type |-> topo.type, coordset |-> topo.coordset, origin |-> topo.origin,
     shape |-> "polygonal", connectivity |-> topo.connectivity,
     sizes |-> [e \in 1..(Len(topo.connectivity) \div shp.indices) |-> shp.indices],
     offsets |-> generate_offsets(
         [e \in 1..(Len(topo.connectivity) \div shp.indices) |-> shp.indices])]

to_polygonal(topo) ==
    IF topo.shape \in {"polygonal", "polyhedral"} THEN topo
    ELSE IF ShapeType(topo.shape).dim # 3 THEN polygonal(topo, ShapeType(topo.shape))
    ELSE polyhedral(topo, ShapeType(topo.shape),
                    ShapeType(ShapeType(topo.shape).embed).indices,
                    polyhedral_faces(topo.connectivity, ShapeType(topo.shape),
                        ShapeType(ShapeType(topo.shape).embed).indices, 0,
                        [conn |-> <<>>, sub |-> <<>>]))

\* ---- generate_sides ----

\* the elements of a topology: a vertex tuple each, and for a polyhedral
\* topology the tuple of the vertex tuples of the element's faces
elements(topo) ==
    IF topo.shape = "polyhedral"
    THEN [e \in 1..Len(topo.sizes) |->
            [f \in 1..topo.sizes[e] |->
                SubSeq(topo.subelements.connectivity,
                       topo.subelements.offsets[topo.connectivity[topo.offsets[e] + f] + 1] + 1,
                       topo.subelements.offsets[topo.connectivity[topo.offsets[e] + f] + 1]
                         + topo.subelements.sizes[topo.connectivity[topo.offsets[e] + f] + 1])]]
    ELSE IF topo.shape = "polygonal"
    THEN [e \in 1..Len(topo.sizes) |->
            SubSeq(topo.connectivity, topo.offsets[e] + 1, topo.offsets[e] + topo.sizes[e])]
    ELSE [e \in 1..(Len(topo.connectivity) \div ShapeType(topo.shape).indices) |->
            SubSeq(topo.connectivity,
                   (e - 1) * ShapeType(topo.shape).indices + 1,
                   e * ShapeType(topo.shape).indices)]

\* get_entity_assocs(LOCAL, ...): the entities one dimension down, in the
\* order and orientation of the shape's embedding
entity_assocs(verts, shape) ==
    IF shape = "polyhedral" THEN verts
    ELSE IF shape = "polygonal"
    THEN [i \in 1..Len(verts) |-> <<verts[i], verts[(i % Len(verts)) + 1]>>]
    ELSE [fi \in 1..ShapeType(shape).embed_count |->
            face_indices(verts, [indices |-> 0, embedding |-> ShapeType(shape).embedding],
                         ShapeType(ShapeType(shape).embed).indices, 0, fi - 1)]

\* dim_topos[2] of a 3D topology before deduplication, in cascade order
cascade_faces(topo) ==
    Flatten([e \in 1..Len(elements(topo)) |->
                entity_assocs(elements(topo)[e], topo.shape)])

\* dim_le2ge_maps: entities with the same vertex set share the id of the
\* first of them, ids counting the distinct sets in order of appearance
global_id(ents, verts) ==
    LET first == CHOOSE i \in 1..Len(ents) :
                     /\ Range(ents[i]) = Range(verts)
                     /\ \A j \in 1..(i - 1) : Range(ents[j]) # Range(verts)
    IN  Cardinality({Range(ents[j]) : j \in 1..(first - 1)})

\* dim_coord_offsets + global id of an embedded entity of dimension >= 2:
\* faces come after the ncoords points, cells of a 3D topology after the faces
centroid_id(faces, ncoords, shape, index, verts, topo_dim) ==
    IF ShapeType(shape).dim = topo_dim
    THEN ncoords + (IF topo_dim = 3 THEN Cardinality({Range(faces[j]) : j \in DOMAIN faces})
                    ELSE 0) + index
    ELSE ncoords + global_id(faces, verts)

\* the entities pushed for an entity of dimension above 1
push_embeds(faces, ncoords, topo_dim, it) ==
    [c \in 1..Len(entity_assocs(it.verts, it.shape)) |->
        [verts   |-> entity_assocs(it.verts, it.shape)[c],
         shape   |-> ShapeType(it.shape).embed,
         index   |-> c - 1,
         parents |-> Append(it.parents,
                            centroid_id(faces, ncoords, it.shape, it.index,
                                        it.verts, topo_dim))]]

\* side_data_raw: line start, line end, then the parents from the nearest up
side_data(it) ==
    <<it.verts[1], it.verts[2]>>
        \o [pi \in 1..Len(it.parents) |-> it.parents[Len(it.parents) - pi + 1]]

\* the while loop over elem_embed_stack for one element
RECURSIVE elem_sides(_, _, _, _, _)
elem_sides(faces, ncoords, topo_dim, stack, sides) ==
    IF stack = <<>> THEN sides
    ELSE IF ShapeType(Head(stack).shape).dim > 1
    THEN elem_sides(faces, ncoords, topo_dim,
                    Tail(stack) \o push_embeds(faces, ncoords, topo_dim, Head(stack)),
                    sides)
    ELSE elem_sides(faces, ncoords, topo_dim, Tail(stack),
                    Append(sides, side_data(Head(stack))))

all_sides(topo, ncoords, faces) ==
    [e \in 1..Len(elements(topo)) |->
        elem_sides(faces, ncoords, ShapeType(topo.shape).dim,
                   <<[verts |-> elements(topo)[e], shape |-> topo.shape,
                      index |-> e - 1, parents |-> <<>>]>>,
                   <<>>)]

d2s_value_side(elem_index, side_index) == side_index
d2s_value(elem_index, side_index) == elem_index

\* the maps and the side connectivity, from the sides of every element
sides_result(cname, topo_dim, es) ==
    [fatal |-> FALSE,
     topo_dest |-> [type |-> "unstructured", coordset |-> cname, origin |-> <<>>,
                    shape |-> IF topo_dim = 3 THEN "tet" ELSE "tri",
                    connectivity |-> Flatten(Flatten(es))],
     coords_dest |-> [type |-> "explicit"],
     s2dmap |-> [values  |-> [s \in 1..Len(Flatten(es)) |-> s - 1],
                 sizes   |-> [e \in 1..Len(es) |-> Len(es[e])],
                 offsets |-> generate_offsets([e \in 1..Len(es) |-> Len(es[e])])],
     d2smap |-> [values  |-> Flatten([e \in 1..Len(es) |->
                                 [s \in 1..Len(es[e]) |->
                                     d2s_value(e - 1,
                                         SumSeq([x \in 1..(e - 1) |-> Len(es[x])]) + s - 1)]]),
                 sizes   |-> [s \in 1..Len(Flatten(es)) |-> 1],
                 offsets |-> generate_offsets([s \in 1..Len(Flatten(es)) |-> 1])]]

generate_sides(topo, ncoords, cname) ==
    IF ShapeType(topo.shape).dim < 2 THEN [fatal |-> TRUE]
    ELSE sides_result(cname, ShapeType(topo.shape).dim,
             all_sides(topo, ncoords,
                       IF ShapeType(topo.shape).dim = 3 THEN cascade_faces(topo)
                       ELSE <<>>))

-----------------------------------------------------------------------------
(* The converters to rectilinear and to structured, and what the verify    *)
(* functions of the target types return on a converter's output.           *)

\* the const fetches of origin/<axis> and spacing/d<axis>: a fatal error
\* when the uniform coordset has the child but not the entry of an axis
coordset_fatal(base_type, cs) ==
    /\ base_type = "uniform"
    /\ \/ cs.origin # <<>> /\ Len(cs.origin) < axes(cs)
       \/ cs.spacing # <<>> /\ Len(cs.spacing) < axes(cs)

convert_coordset_to_rectilinear(base_type, cs) ==
    [type |-> "rectilinear", dims |-> <<>>, origin |-> <<>>, spacing |-> <<>>,
     values |-> [i \in 1..axes(cs) |-> src_cvals("uniform", cs, i, cs.dims[i])]]

convert_topology_to_rectilinear(base_type, topo, cs, cname) ==
    [dest  |-> [type |-> "rectilinear", coordset |-> cname,
                origin |-> topo.origin, edims |-> topo.edims],
     cdest |-> convert_coordset_to_rectilinear("uniform", cs)]

convert_topology_to_structured(base_type, topo, cs, cname) ==
    [dest  |-> [type |-> "structured", coordset |-> cname, origin |-> topo.origin,
                edims |-> [i \in 1..axes(cs) |-> dim_lens(base_type, cs)[i] - 1]],
     cdest |-> convert_coordset_to_explicit(base_type, cs)]

\* mesh::logical_dims::verify: "i" is required, "j" and "k" are optional
logical_dims_verify(dims) == Len(dims) >= 1

\* mesh::coordset::uniform::verify (origin and spacing entries are numbers)
coordset_uniform_verify(c) ==
    c.type = "uniform" /\ Len(c.dims) # 0 /\ logical_dims_verify(c.dims)

\* mesh::coordset::rectilinear::verify: values is an object or list with
\* children, each a number array
coordset_rectilinear_verify(c) == c.type = "rectilinear" /\ Len(c.values) # 0

\* blueprint::mcarray::verify: components, all of the same length
mcarray_verify(values) ==
    Len(values) # 0 /\ \A a, b \in DOMAIN values : Len(values[a]) = Len(values[b])

\* mesh::coordset::_explicit::verify
coordset_explicit_verify(c) == c.type = "explicit" /\ mcarray_verify(c.values)

\* mesh::topology::{uniform,rectilinear}::verify: coordset is a string and
\* type is the type's name
grid_topology_verify(t, type_name) == t.type = type_name /\ t.coordset \in STRING

\* mesh::topology::structured::verify
topology_structured_verify(t) ==
    /\ t.type = "structured" /\ t.coordset \in STRING
    /\ Len(t.edims) # 0 /\ logical_dims_verify(t.edims)

\* mesh::topology::unstructured::verify, single shape case
unstructured_verify(t) ==
    /\ t.type = "unstructured" /\ t.coordset \in STRING
    /\ t.shape \in TOPO_SHAPES
    /\ t.shape \in {"polygonal", "polyhedral"} => "sizes" \in DOMAIN t

\* Node::set_external(node): the view gets children of its own, and its
\* leaves point at the memory of the source
set_external_node(n) == [children |-> DOMAIN n, owned |-> FALSE]

node_remove_owned(view, names) ==
    [children |-> view.children \ names, released |-> names]
\* Node::remove on the children named: they leave the node, and their
\* memory is released only when the node owns it
node_remove(view, names) ==
    [children |-> view.children \ names,
     released |-> IF view.owned THEN names ELSE {}]

\* the source tree once the memory of the children named is released
source_after(topo, released) ==
    IF released = {} THEN topo ELSE [c \in DOMAIN topo \ released |-> topo[c]]

\* the children of the "elements" child of a topology
elements_children(topo) ==
    DOMAIN topo \cap {"shape", "connectivity", "sizes", "offsets", "subelements"}

\* to_polygonal's template: topo_templ.set_external(topo), then
\* topo_templ.remove("elements"); what it leaves of the source
polygonal_source(topo) ==
    IF topo.shape \in {"polygonal", "polyhedral"} THEN topo
    ELSE source_after(topo, node_remove(set_external_node(topo),
                                        elements_children(topo)).released)

-----------------------------------------------------------------------------
(* The converters as a state machine: a caller holds one grid mesh or one  *)
(* unstructured topology and calls one converter on it.                    *)

MaxVerts == 3      \* vertices along an axis of a grid
MaxCells == 2      \* cells of an unstructured topology

GridDims == UNION {[1..n -> 1..MaxVerts] : n \in 1..3}

UniformCoordsets(d) ==
    {[type |-> "uniform", dims |-> d, origin |-> o, spacing |-> s, values |-> <<>>] :
        o \in {<<>>, [a \in 1..Len(d) |-> 0], [a \in 1..Len(d) |-> 10 * a]},
        s \in {<<>>, [a \in 1..Len(d) |-> a]}}
    \cup \* origin for every axis, spacing for the first axis only
    {[type |-> "uniform", dims |-> d, origin |-> [a \in 1..Len(d) |-> 0],
      spacing |-> <<2>>, values |-> <<>>]}

RectilinearCoordset(d) ==
    [type |-> "rectilinear", dims |-> <<>>, origin |-> <<>>, spacing |-> <<>>,
     values |-> [a \in 1..Len(d) |-> [i \in 1..d[a] |-> (i - 1) * (i - 1) + a]]]

ExplicitCoordset(d) ==
    [type |-> "explicit", dims |-> <<>>, origin |-> <<>>, spacing |-> <<>>,
     values |-> [a \in 1..Len(d) |-> [k \in 1..Prod(d) |-> 10 * a + k]]]

GridTopo(type, d, o) ==
    [type |-> type, origin |-> o,
     edims |-> IF type = "structured" THEN [a \in 1..Len(d) |-> d[a] - 1] ELSE <<>>]

GridCoordsets(base, d) ==
    IF base = "uniform" THEN UniformCoordsets(d)
    ELSE IF base = "rectilinear" THEN {RectilinearCoordset(d)}
    ELSE {ExplicitCoordset(d)}

GridInputs ==
    UNION {{[kind |-> "grid", base |-> base, coordset |-> c,
             topo |-> GridTopo(base, d, o)] :
                c \in GridCoordsets(base, d),
                o \in {<<>>, [a \in 1..Len(d) |-> 1]}} :
           base \in {"uniform", "rectilinear", "structured"}, d \in GridDims}

CellPool(shape) ==
    CASE shape = "line" -> {<<0, 1>>, <<1, 2>>}
      [] shape = "tri"  -> {<<0, 1, 2>>, <<1, 3, 2>>}
      [] shape = "quad" -> {<<0, 1, 4, 3>>, <<1, 2, 5, 4>>}
      [] shape = "tet"  -> {<<0, 1, 2, 3>>, <<1, 2, 3, 4>>, <<0, 0, 1, 1>>}
      [] shape = "hex"  -> {<<0, 1, 2, 3, 4, 5, 6, 7>>, <<4, 5, 6, 7, 8, 9, 10, 11>>}

TopoInputs ==
    UNION {{[kind |-> "topo",
             ncoords |-> Cardinality(UNION {Range(c) : c \in CellPool(shape)}),
             topo |-> [type |-> "unstructured", coordset |-> "coords",
                       origin |-> <<>>, shape |-> shape,
                       connectivity |-> Flatten(cells)]] :
                cells \in UNION {[1..n -> CellPool(shape)] : n \in 0..MaxCells}} :
           shape \in {"line", "tri", "quad", "tet", "hex"}}

InitConv ==
    /\ cin \in GridInputs \cup TopoInputs
    /\ cout = [none |-> TRUE]
    /\ cphase = "input"
    /\ IdleVerify /\ IdlePart

\* mesh::coordset::{uniform,rectilinear}::to_explicit
ToExplicit ==
    /\ cphase = "input" /\ cin.kind = "grid"
    /\ cin.base \in {"uniform", "rectilinear"}
    /\ IF coordset_fatal(cin.base, cin.coordset)
       THEN cout' = [fatal |-> TRUE] /\ cphase' = "fatal"
       ELSE /\ cout' = [cdest |-> convert_coordset_to_explicit(cin.base, cin.coordset)]
            /\ cphase' = "explicit"
    /\ UNCHANGED <<cin, verifyVars, partVars>>

\* mesh::coordset::uniform::to_rectilinear
ToRectilinear ==
    /\ cphase = "input" /\ cin.kind = "grid" /\ cin.base = "uniform"
    /\ IF coordset_fatal(cin.base, cin.coordset)
       THEN cout' = [fatal |-> TRUE] /\ cphase' = "fatal"
       ELSE /\ cout' = [cdest |-> convert_coordset_to_rectilinear(cin.base, cin.coordset)]
            /\ cphase' = "rectilinear"
    /\ UNCHANGED <<cin, verifyVars, partVars>>

\* mesh::topology::uniform::to_rectilinear
TopologyToRectilinear ==
    /\ cphase = "input" /\ cin.kind = "grid" /\ cin.base = "uniform"
    /\ IF coordset_fatal(cin.base, cin.coordset)
       THEN cout' = [fatal |-> TRUE] /\ cphase' = "fatal"
       ELSE /\ cout' = convert_topology_to_rectilinear(cin.base, cin.topo,
                                                      cin.coordset, "coords")
            /\ cphase' = "topology_rectilinear"
    /\ UNCHANGED <<cin, verifyVars, partVars>>

\* mesh::topology::{uniform,rectilinear}::to_structured
ToStructured ==
    /\ cphase = "input" /\ cin.kind = "grid"
    /\ cin.base \in {"uniform", "rectilinear"}
    /\ IF coordset_fatal(cin.base, cin.coordset)
       THEN cout' = [fatal |-> TRUE] /\ cphase' = "fatal"
       ELSE /\ cout' = convert_topology_to_structured(cin.base, cin.topo,
                                                     cin.coordset, "coords")
            /\ cphase' = "structured"
    /\ UNCHANGED <<cin, verifyVars, partVars>>

\* mesh::topology::{uniform,rectilinear,structured}::to_unstructured
ToUnstructured ==
    /\ cphase = "input" /\ cin.kind = "grid"
    /\ IF coordset_fatal(cin.base, cin.coordset)
       THEN cout' = [fatal |-> TRUE] /\ cphase' = "fatal"
       ELSE /\ cout' = convert_topology_to_unstructured(cin.base, cin.topo,
                                                       cin.coordset, "coords")
            /\ cphase' = "unstructured"
    /\ UNCHANGED <<cin, verifyVars, partVars>>

\* mesh::topology::unstructured::to_polygonal
ToPolygonal ==
    /\ cphase = "input" /\ cin.kind = "topo"
    /\ cout' = [dest |-> to_polygonal(cin.topo)]
    /\ cphase' = "polygonal"
    /\ cin' = [cin EXCEPT !.topo = polygonal_source(cin.topo)]
    /\ UNCHANGED <<verifyVars, partVars>>

\* mesh::topology::unstructured::generate_sides
GenerateSides ==
    /\ cphase = "input" /\ cin.kind = "topo"
    /\ cout' = generate_sides(cin.topo, cin.ncoords, "coords")
    /\ cphase' = "sides"
    /\ UNCHANGED <<cin, verifyVars, partVars>>

NextConv ==
    \/ ToExplicit \/ ToRectilinear \/ TopologyToRectilinear \/ ToStructured
    \/ ToUnstructured \/ ToPolygonal \/ GenerateSides

SpecConv == InitConv /\ [][NextConv]_vars

-----------------------------------------------------------------------------
(* Claims on the converters                                                *)

\* the grid the caller handed in: its axes and its vertices along each axis
GridAxes == IF cin.base = "structured" THEN Len(cin.topo.edims)
            ELSE IF cin.base = "rectilinear" THEN Len(cin.coordset.values)
            ELSE Len(cin.coordset.dims)
GridVerts ==
    [a \in 1..GridAxes |->
        IF cin.base = "structured" THEN cin.topo.edims[a] + 1
        ELSE IF cin.base = "rectilinear" THEN Len(cin.coordset.values[a])
        ELSE cin.coordset.dims[a]]
ElemDim(a) == IF a <= GridAxes THEN GridVerts[a] - 1 ELSE 1

\* the local vertex whose bit pattern a local index carries after the swap
Unswapped(l) == CASE l = 2 -> 3 [] l = 3 -> 2 [] l = 6 -> 7 [] l = 7 -> 6
                  [] OTHER -> l
\* bit a of the pattern behind local index l
SrcBit(l, a) == (Unswapped(l) \div (2 ^ a)) % 2

\* C7: the unstructured topology made from a grid of ni x nj x nk elements
\* has ni*nj*nk elements of 2^d vertices, shape line, quad or hex; the
\* vertex at local index l of element e is the grid vertex reached from
\* the element's (i, j, k) by the bits of l, local 2 and 3 (6 and 7)
\* swapped, and every id is below the number of vertices.
C7_Unstructured ==
    cphase = "unstructured" =>
        LET ni   == ElemDim(1)
            nj   == ElemDim(2)
            nk   == ElemDim(3)
            per  == 2 ^ GridAxes
            conn == cout.dest.connectivity
        IN  /\ cout.dest.type = "unstructured"
            /\ cout.dest.shape = <<"line", "quad", "hex">>[GridAxes]
            /\ Len(conn) = ni * nj * nk * per
            /\ \A e \in 0..(ni * nj * nk - 1), l \in 0..(per - 1) :
                   /\ conn[e * per + l + 1] =
                          ((e % ni) + SrcBit(l, 0))
                          + (((e \div ni) % nj) + SrcBit(l, 1)) * (ni + 1)
                          + ((e \div (ni * nj)) + SrcBit(l, 2)) * (ni + 1) * (nj + 1)
                   /\ conn[e * per + l + 1] \in 0..(Prod(GridVerts) - 1)

C7_Witness ==
    /\ cphase = "unstructured"
    /\ GridAxes = 2 /\ ElemDim(1) = 2 /\ ElemDim(2) = 2
    /\ cout.dest.shape = "quad"
    /\ cout.dest.connectivity = <<0,1,4,3, 1,2,5,4, 3,4,7,6, 4,5,8,7>>

\* the index along axis a of vertex k, x fastest
AxisIndex(a, k) ==
    IF a = 1 THEN k % GridVerts[1]
    ELSE IF a = 2 THEN (k \div GridVerts[1]) % GridVerts[2]
    ELSE k \div (GridVerts[1] * GridVerts[2])

\* the value of axis a at index idx in the source coordset
AxisValue(a, idx) ==
    IF cin.base = "rectilinear" THEN cin.coordset.values[a][idx + 1]
    ELSE (IF cin.coordset.origin = <<>> THEN 0 ELSE cin.coordset.origin[a])
         + idx * (IF cin.coordset.spacing = <<>> THEN 1 ELSE cin.coordset.spacing[a])

\* C8: the explicit coordset made from a uniform or rectilinear one has,
\* for every axis, one entry per vertex (the product of the per-axis
\* counts), and the entry of vertex k is the axis value at k's own index
\* along that axis: origin + index * spacing (0 and 1 when absent) for
\* uniform, the source array's entry for rectilinear.
C8_Explicit ==
    (cphase = "explicit" \/ (cphase = "unstructured" /\ cin.base # "structured")) =>
        /\ cout.cdest.type = "explicit"
        /\ Len(cout.cdest.values) = GridAxes
        /\ \A a \in 1..GridAxes :
               /\ Len(cout.cdest.values[a]) = Prod(GridVerts)
               /\ \A k \in 0..(Prod(GridVerts) - 1) :
                      cout.cdest.values[a][k + 1] = AxisValue(a, AxisIndex(a, k))

C8_Witness ==
    /\ cphase = "explicit"
    /\ cin.base = "uniform"
    /\ cin.coordset.dims = <<3, 2>>
    /\ cin.coordset.origin = <<0, 0>>
    /\ cin.coordset.spacing = <<1, 2>>
    /\ cout.cdest.values = << <<0, 1, 2, 0, 1, 2>>, <<0, 0, 0, 2, 2, 2>> >>

\* the subelement face p (0-based) of a polyhedral topology, m indices each
SubFace(t, m, p) == SubSeq(t.subelements.connectivity, p * m + 1, p * m + m)

\* C9: to_polygonal on a 3D single-shape topology gives shape polyhedral,
\* sizes all equal to the shape's face count and subelements of shape
\* polygonal; no two subelement faces have the same vertex set; every
\* connectivity entry is a subelement index whose vertex set is that of
\* the corresponding embedded face of the cell.
C9_Polyhedral ==
    (cphase = "polygonal" /\ ShapeType(cin.topo.shape).dim = 3) =>
        LET shp    == ShapeType(cin.topo.shape)
            m      == ShapeType(shp.embed).indices
            ncells == Len(cin.topo.connectivity) \div shp.indices
            nfaces == Len(cout.dest.subelements.connectivity) \div m
        IN  /\ cout.dest.shape = "polyhedral"
            /\ cout.dest.subelements.shape = "polygonal"
            /\ cout.dest.sizes = [e \in 1..ncells |-> shp.embed_count]
            /\ Len(cout.dest.connectivity) = ncells * shp.embed_count
            /\ \A p, q \in 0..(nfaces - 1) :
                   p # q => Range(SubFace(cout.dest, m, p)) # Range(SubFace(cout.dest, m, q))
            /\ \A e \in 0..(ncells - 1), f \in 0..(shp.embed_count - 1) :
                   /\ cout.dest.connectivity[e * shp.embed_count + f + 1] \in 0..(nfaces - 1)
                   /\ Range(SubFace(cout.dest, m,
                                    cout.dest.connectivity[e * shp.embed_count + f + 1]))
                          = Range(face_indices(cin.topo.connectivity, shp, m, e, f))

\* the number of sides generate_sides cuts a cell of the shape into: one
\* per line of a 2D cell, one per line of every face of a 3D cell
SidesPerCell(shape) ==
    IF ShapeType(shape).dim = 2 THEN ShapeType(shape).embed_count
    ELSE ShapeType(shape).embed_count * ShapeType(ShapeType(shape).embed).embed_count

NumCells == Len(cin.topo.connectivity) \div ShapeType(cin.topo.shape).indices
NumSides == NumCells * SidesPerCell(cin.topo.shape)

\* one entry per side, of size 1, naming the side's parent cell
SideToParent(map) ==
    /\ Len(map.sizes) = NumSides /\ Len(map.values) = NumSides
    /\ map.offsets = generate_offsets(map.sizes)
    /\ \A s \in 0..(NumSides - 1) :
           /\ map.sizes[s + 1] = 1
           /\ map.values[s + 1] = s \div SidesPerCell(cin.topo.shape)

\* one entry per parent cell listing its sides: every side index appears
\* exactly once and the counts sum to the number of sides
ParentToSides(map) ==
    /\ Len(map.sizes) = NumCells /\ Len(map.values) = NumSides
    /\ map.offsets = generate_offsets(map.sizes)
    /\ SumSeq(map.sizes) = NumSides
    /\ \A s \in 0..(NumSides - 1) :
           Cardinality({i \in DOMAIN map.values : map.values[i] = s}) = 1
    /\ \A c \in 0..(NumCells - 1) :
           \A i \in (map.offsets[c + 1] + 1)..(map.offsets[c + 1] + map.sizes[c + 1]) :
               map.values[i] \div SidesPerCell(cin.topo.shape) = c

\* C10, as the claim has it: s2d is the side-to-parent-cell relation and
\* d2s the parent-cell-to-sides relation.
C10_AsClaimed ==
    (cphase = "sides" /\ ~cout.fatal) =>
        SideToParent(cout.s2dmap) /\ ParentToSides(cout.d2smap)

\* C10, amended: s2d (source to destination) is the parent-cell-to-sides
\* relation and d2s (destination to source) the side-to-parent-cell
\* relation; every side has exactly one parent cell, every side index
\* appears exactly once among the sides listed for the parent cells, and
\* the per-parent counts sum to the number of sides.
C10_SidesMaps ==
    (cphase = "sides" /\ ~cout.fatal) =>
        ParentToSides(cout.s2dmap) /\ SideToParent(cout.d2smap)

C10_Witness ==
    /\ cphase = "sides" /\ ~cout.fatal
    /\ cin.topo.shape = "quad" /\ NumCells = 2
    /\ cout.s2dmap.sizes = <<4, 4>>
    /\ cout.d2smap.values = <<0, 0, 0, 0, 1, 1, 1, 1>>

-----------------------------------------------------------------------------
(* generate_sides with field mapping.                                       *)
(* A float64 is the exact rational [n, d] in lowest terms with d > 0; d = 0 *)
(* holds the IEEE specials: 0/0 is NaN and 1/0, -1/0 are the infinities.    *)
(* Rounding is not modelled.                                                *)

RECURSIVE GCD(_, _)
GCD(a, b) == IF b = 0 THEN a ELSE GCD(b, a % b)
Abs(x) == IF x < 0 THEN -x ELSE x
Sgn(x) == IF x < 0 THEN -1 ELSE IF x > 0 THEN 1 ELSE 0

Q(n, d) ==
    IF d = 0 THEN [n |-> Sgn(n), d |-> 0]
    ELSE [n |-> (Sgn(d) * n) \div GCD(Abs(n), Abs(d)),
          d |-> Abs(d) \div GCD(Abs(n), Abs(d))]
NaN == Q(0, 0)
QAdd(a, b) ==
    IF a.d # 0 /\ b.d # 0 THEN Q(a.n * b.d + b.n * a.d, a.d * b.d)
    ELSE IF a.d = 0 /\ b.d = 0 THEN (IF a.n = b.n THEN a ELSE NaN)
    ELSE IF a.d = 0 THEN a ELSE b
QMul(a, b) == Q(a.n * b.n, a.d * b.d)
QSub(a, b) == QAdd(a, QMul(Q(-1, 1), b))
QDiv(a, b) ==
    IF a.d = 0 THEN (IF b.d = 0 THEN NaN ELSE Q(a.n * (IF b.n < 0 THEN -1 ELSE 1), 0))
    ELSE IF b.d = 0 THEN (IF b.n = 0 THEN NaN ELSE Q(0, 1))
    ELSE Q(a.n * b.d, a.d * b.n)
RECURSIVE QSum(_)
QSum(s) == IF s = <<>> THEN Q(0, 1)
           ELSE QAdd(QSum(SubSeq(s, 1, Len(s) - 1)), s[Len(s)])

\* triangle_area: signed, positive for a counter-clockwise triangle
triangle_area(x1, y1, x2, y2, x3, y3) ==
    QMul(Q(1, 2), QAdd(QAdd(QMul(x1, QSub(y2, y3)), QMul(x2, QSub(y3, y1))),
                       QMul(x3, QSub(y1, y2))))

\* vec3::operator-, cross and dot, on triples of float64
vec3_sub(u, v) == <<QSub(u[1], v[1]), QSub(u[2], v[2]), QSub(u[3], v[3])>>
vec3_cross(u, v) == <<QSub(QMul(u[2], v[3]), QMul(u[3], v[2])),
                      QSub(QMul(u[3], v[1]), QMul(u[1], v[3])),
                      QSub(QMul(u[1], v[2]), QMul(u[2], v[1]))>>
vec3_dot(u, v) == QAdd(QAdd(QMul(u[1], v[1]), QMul(u[2], v[2])), QMul(u[3], v[3]))

\* tetrahedron_volume: fabs of the triple product, over 6
tetrahedron_volume(a, b, c, d) ==
    QDiv([n |-> Abs(vec3_dot(vec3_sub(a, d),
                             vec3_cross(vec3_sub(b, d), vec3_sub(c, d))).n),
          d |-> vec3_dot(vec3_sub(a, d),
                         vec3_cross(vec3_sub(b, d), vec3_sub(c, d))).d],
         Q(6, 1))

\* the vertex ids of an entity
entity_verts(verts, shape) ==
    IF shape = "polyhedral" THEN UNION {Range(verts[f]) : f \in DOMAIN verts}
    ELSE Range(verts)

\* calculate_unstructured_centroids for one entity: along every axis the sum
\* of coordinate / (number of distinct vertices) over its distinct vertices
centroid(cvals, S) ==
    [a \in DOMAIN cvals |->
        QSum([v \in DOMAIN cvals[a] |->
                 IF (v - 1) \in S THEN QDiv(cvals[a][v], Q(Cardinality(S), 1))
                 ELSE Q(0, 1)])]

\* the distinct faces in order of first appearance (dim_topos[2] of a 3D topology)
unique_faces(faces) ==
    [k \in 1..Cardinality({Range(faces[j]) : j \in DOMAIN faces}) |->
        Range(faces[CHOOSE i \in DOMAIN faces : global_id(faces, faces[i]) = k - 1])]

\* the centroids generate_sides appends to the source coordinates: those of
\* the faces (3D only), then those of the cells
new_points(topo, cvals) ==
    (IF ShapeType(topo.shape).dim = 3
     THEN [k \in DOMAIN unique_faces(cascade_faces(topo)) |->
              centroid(cvals, unique_faces(cascade_faces(topo))[k])]
     ELSE <<>>)
    \o [e \in DOMAIN elements(topo) |->
           centroid(cvals, entity_verts(elements(topo)[e], topo.shape))]

\* coords_dest of generate_sides: an explicit coordset, as float64
sides_coordset(topo, coords) ==
    [type |-> "explicit",
     values |-> [a \in DOMAIN coords |->
                    [v \in DOMAIN coords[a] |-> Q(coords[a][v], 1)]
                    \o [k \in DOMAIN new_points(topo,
                                 [b \in DOMAIN coords |->
                                     [v \in DOMAIN coords[b] |-> Q(coords[b][v], 1)]]) |->
                           new_points(topo,
                                 [b \in DOMAIN coords |->
                                     [v \in DOMAIN coords[b] |-> Q(coords[b][v], 1)]])[k][a]]]]

\* the float64 coordinates of vertex p of a simplex corner
corner(cvals, conn, i, k, a) == cvals[a][conn[i + k] + 1]

\* volume_dependent_helper, first loop: the volume of each triangle or tetrahedron
tri_volumes(conn, cvals, dimensions, new_num_shapes) ==
    [i \in 1..new_num_shapes |->
        IF dimensions = 2
        THEN triangle_area(corner(cvals, conn, (i - 1) * 3, 1, 1),
                           corner(cvals, conn, (i - 1) * 3, 1, 2),
                           corner(cvals, conn, (i - 1) * 3, 2, 1),
                           corner(cvals, conn, (i - 1) * 3, 2, 2),
                           corner(cvals, conn, (i - 1) * 3, 3, 1),
                           corner(cvals, conn, (i - 1) * 3, 3, 2))
        ELSE tetrahedron_volume(
                 [a \in 1..3 |-> corner(cvals, conn, (i - 1) * 4, 1, a)],
                 [a \in 1..3 |-> corner(cvals, conn, (i - 1) * 4, 2, a)],
                 [a \in 1..3 |-> corner(cvals, conn, (i - 1) * 4, 3, a)],
                 [a \in 1..3 |-> corner(cvals, conn, (i - 1) * 4, 4, a)])]

\* second loop: the volume of each original polygon or polyhedron
poly_volumes(tv, num_orig_shapes, tri_to_poly) ==
    [p \in 1..num_orig_shapes |->
        QSum([i \in DOMAIN tv |-> IF tri_to_poly[i] = p - 1 THEN tv[i] ELSE Q(0, 1)])]

\* third loop: the volume ratio
ratio(tv, pv, tri_to_poly) ==
    [i \in DOMAIN tv |-> QDiv(tv[i], pv[tri_to_poly[i] + 1])]

volume_dependent_helper(conn, cvals, dimensions, new_num_shapes, num_orig_shapes, tri_to_poly) ==
    [volumes |-> tri_volumes(conn, cvals, dimensions, new_num_shapes),
     ratio   |-> ratio(tri_volumes(conn, cvals, dimensions, new_num_shapes),
                       poly_volumes(tri_volumes(conn, cvals, dimensions, new_num_shapes),
                                    num_orig_shapes, tri_to_poly),
                       tri_to_poly)]

\* the set info[p] of vertex_associated_field: the other corners of the
\* simplices that have p at some corner
neighbors(conn, iter, p) ==
    {conn[k] : k \in {k \in DOMAIN conn :
                        \E j \in DOMAIN conn :
                            /\ conn[j] = p /\ k # j
                            /\ (j - 1) \div iter = (k - 1) \div iter}}

\* sum / num_neighbors over the original points of info[p]
mean(conn, data, orig_num_points, iter, p) ==
    QDiv(QSum([n \in 1..orig_num_points |->
                  IF (n - 1) \in neighbors(conn, iter, p) THEN Q(data[n], 1) ELSE Q(0, 1)]),
         Q(Cardinality({n \in neighbors(conn, iter, p) : n < orig_num_points}), 1))

vertex_associated_field(conn, data, orig_num_points, new_num_points, dimensions) ==
    [i \in 1..new_num_points |->
        IF i - 1 < orig_num_points THEN Q(data[i], 1)
        ELSE IF (i - 1) \in Range(conn) /\ orig_num_points <= i - 1
        THEN mean(conn, data, orig_num_points, IF dimensions = 2 THEN 3 ELSE 4, i - 1)
        ELSE Q(0, 1)]

\* map_field_to_generated_sides: the values of the mapped field
map_field_to_generated_sides(data, c, vr, vol_dep, vert_assoc) ==
    IF vert_assoc
    THEN vertex_associated_field(c.topo_dest.connectivity, data, c.orig_num_points,
                                 c.new_num_points, c.dimensions)
    ELSE [i \in 1..c.new_num_shapes |->
            IF vol_dep THEN QMul(Q(data[c.tri_to_poly[i] + 1], 1), vr[i])
            ELSE data[c.tri_to_poly[i] + 1]]

\* a child of fields_dest, created empty by the non-const fetch when missing
NoField == [topology |-> Absent, association |-> Absent,
            volume_dependent |-> Absent, values |-> <<>>]
FieldAt(out, name) == IF name \in DOMAIN out THEN out[name] ELSE NoField
SetField(out, name, rec) == (name :> rec) @@ out

\* "found": the field is one of the selected fields, or none were named
field_selected(field, c) ==
    c.field_names = <<>> \/ field.name \in Range(c.field_names)

is_vert_assoc(field) == field.association = Str("vertex")
is_vol_dep(field) == field.volume_dependent = Str("true")

\* the fatal errors of one field that is selected and uses the topology
field_fatal(field) ==
    \/ field.association.k # "absent"
         /\ (as_string_fatal(field.association)
               \/ field.association.v \notin {"element", "vertex"})
    \/ field.volume_dependent.k # "absent"
         /\ (as_string_fatal(field.volume_dependent)
               \/ (is_vol_dep(field) /\ is_vert_assoc(field)))

\* copy all information from the old field except for the values
copy_children(old, field) ==
    [topology |-> field.topology,
     association |-> IF field.association.k = "absent" THEN old.association
                     ELSE field.association,
     volume_dependent |-> IF field.volume_dependent.k = "absent"
                          THEN old.volume_dependent ELSE field.volume_dependent,
     values |-> old.values]

\* the volume field, made when the first volume-dependent field is met
volume_field(out, c, vol) ==
    SetField(out, c.field_prefix \o "volume",
             [topology |-> Str(c.topo_name), association |-> Str("element"),
              volume_dependent |-> Str("true"), values |-> vol.volumes])

\* the values of the mapped field
values_field(out, name, vals) ==
    SetField(out, name, [FieldAt(out, name) EXCEPT !.values = vals])

\* the volumes, once calculated, are kept for the later fields
volumes_of(st, c) ==
    IF st.volumes_calculated THEN st.vol
    ELSE volume_dependent_helper(c.topo_dest.connectivity, c.cvals, c.dimensions,
                                 c.new_num_shapes, c.num_orig_shapes, c.tri_to_poly)

\* the body of the while loop for one field that is selected and uses the topology
map_selected_field(field, st, c, name) ==
    IF field_fatal(field)
    THEN [st EXCEPT !.fatal = TRUE, !.out = SetField(st.out, name, FieldAt(st.out, name))]
    ELSE [fatal |-> FALSE,
          volumes_calculated |-> st.volumes_calculated \/ is_vol_dep(field),
          vol |-> IF is_vol_dep(field) THEN volumes_of(st, c) ELSE st.vol,
          out |-> values_field(
                      IF is_vol_dep(field) /\ ~st.volumes_calculated
                      THEN volume_field(
                               SetField(st.out, name,
                                        copy_children(FieldAt(st.out, name), field)),
                               c, volumes_of(st, c))
                      ELSE SetField(st.out, name,
                                    copy_children(FieldAt(st.out, name), field)),
                      name,
                      map_field_to_generated_sides(field.values, c,
                          IF is_vol_dep(field) THEN volumes_of(st, c).ratio ELSE <<>>,
                          is_vol_dep(field), is_vert_assoc(field)))]

\* the body of the while loop over the children of fields_src
map_field(field, st, c) ==
    IF field_selected(field, c) /\ as_string_fatal(field.topology)
    THEN [st EXCEPT !.fatal = TRUE]
    ELSE IF field_selected(field, c) /\ field.topology.v = c.topo_name
    THEN map_selected_field(field, st, c, c.field_prefix \o field.name)
    ELSE IF c.field_names # <<>> /\ field_selected(field, c)
    THEN [st EXCEPT !.fatal = TRUE]
    ELSE st

RECURSIVE map_fields_loop(_, _, _, _)
map_fields_loop(fields, i, st, c) ==
    IF i > Len(fields) \/ st.fatal THEN st
    ELSE map_fields_loop(fields, i + 1, map_field(fields[i], st, c), c)

\* the two id fields, set up before the loop
original_ids(c) ==
    ((c.field_prefix \o "original_element_ids") :>
        [topology |-> Str(c.topo_name), association |-> Str("element"),
         volume_dependent |-> Str("false"), values |-> c.tri_to_poly])
    @@
    ((c.field_prefix \o "original_vertex_ids") :>
        [topology |-> Str(c.topo_name), association |-> Str("vertex"),
         volume_dependent |-> Str("false"),
         values |-> [i \in 1..c.new_num_points |->
                        IF i - 1 < c.orig_num_points THEN i - 1 ELSE -1]])

\* what map_fields_to_generated_sides reads from its arguments
map_context(topo_src, topo_name, orig_num_points, sides, coords_dest, field_names, field_prefix) ==
    [topo_name |-> topo_name, field_names |-> field_names, field_prefix |-> field_prefix,
     topo_dest |-> sides.topo_dest, cvals |-> coords_dest.values,
     tri_to_poly |-> sides.d2smap.values,
     dimensions |-> IF sides.topo_dest.shape = "tet" THEN 3 ELSE 2,
     new_num_shapes |-> Len(sides.topo_dest.connectivity)
                          \div (IF sides.topo_dest.shape = "tet" THEN 4 ELSE 3),
     num_orig_shapes |-> IF "sizes" \in DOMAIN topo_src THEN Len(topo_src.sizes) ELSE 0,
     orig_num_points |-> orig_num_points,
     new_num_points |-> Len(coords_dest.values[1])]

\* map_fields_to_generated_sides: [fatal, fields_dest]; the const fetch of
\* elements/sizes is a fatal error when the source topology has no such child
map_fields_to_generated_sides(topo_src, c_of, fields_src) ==
    IF "sizes" \notin DOMAIN topo_src THEN [fatal |-> TRUE, fields_dest |-> <<>>]
    ELSE [fatal |-> map_fields_loop(fields_src, 1,
                        [fatal |-> FALSE, volumes_calculated |-> FALSE,
                         vol |-> [volumes |-> <<>>, ratio |-> <<>>],
                         out |-> original_ids(c_of)], c_of).fatal,
          fields_dest |-> map_fields_loop(fields_src, 1,
                        [fatal |-> FALSE, volumes_calculated |-> FALSE,
                         vol |-> [volumes |-> <<>>, ratio |-> <<>>],
                         out |-> original_ids(c_of)], c_of).out]

\* the options node: field_prefix must be a string, field_names a string or
\* a list of strings, and every name a child of fields_src
options_fatal(options, fields_src) ==
    \/ options.field_prefix.k \notin {"absent", "str"}
    \/ options.field_names.k \notin {"absent", "str", "list"}
    \/ \E i \in DOMAIN options.field_names.ch :
          \/ options.field_names.ch[i].k # "str"
          \/ ~has_child(fields_src, options.field_names.ch[i].v)

options_prefix(options) ==
    IF options.field_prefix.k = "absent" THEN "" ELSE options.field_prefix.v
options_names(options) ==
    [i \in DOMAIN options.field_names.ch |-> options.field_names.ch[i].v]

\* generate_sides with fields_dest and options: the options are parsed, the
\* sides are generated as usual, then the fields are mapped
generate_sides_fields(m, sides) ==
    IF options_fatal(m.options, m.fields) \/ sides.fatal
    THEN [fatal |-> TRUE, fields_dest |-> <<>>]
    ELSE [fatal |-> map_fields_to_generated_sides(m.topo,
                        map_context(m.topo, m.topo_name, Len(m.coords[1]), sides,
                                    sides_coordset(m.topo, m.coords),
                                    options_names(m.options), options_prefix(m.options)),
                        m.fields.ch).fatal,
          topo_dest |-> sides.topo_dest,
          coords_dest |-> sides_coordset(m.topo, m.coords),
          s2dmap |-> sides.s2dmap,
          d2smap |-> sides.d2smap,
          fields_dest |-> map_fields_to_generated_sides(m.topo,
                        map_context(m.topo, m.topo_name, Len(m.coords[1]), sides,
                                    sides_coordset(m.topo, m.coords),
                                    options_names(m.options), options_prefix(m.options)),
                        m.fields.ch).fields_dest]

-----------------------------------------------------------------------------
(* Field mapping as a state machine: a caller holds one mesh with fields   *)
(* and calls generate_sides with an options node; the mapping of one       *)
(* vertex field over a given simplex connectivity is also called directly. *)

MaxPolys  == 2     \* cells of a polygonal topology
MaxFields == 2     \* fields of a mesh

\* six points in the plane; the cells: two squares, a counter-clockwise and
\* a clockwise triangle, and three points on a line
PlaneCoords == << <<0, 6, 6, 0, 12, 12>>, <<0, 0, 6, 6, 0, 6>> >>
PolyPool == {<<0, 1, 2, 3>>, <<1, 4, 5, 2>>, <<0, 1, 2>>, <<0, 2, 1>>, <<0, 1, 4>>}

PolygonalTopo(cells) ==
    [type |-> "unstructured", coordset |-> "coords", origin |-> <<>>,
     shape |-> "polygonal", connectivity |-> Flatten(cells),
     sizes |-> [e \in DOMAIN cells |-> Len(cells[e])],
     offsets |-> generate_offsets([e \in DOMAIN cells |-> Len(cells[e])])]

\* one tetrahedron as a polyhedron of four triangles
SpaceCoords == << <<0, 12, 0, 0>>, <<0, 0, 12, 0>>, <<0, 0, 0, 12>> >>
PolyhedralTopo ==
    [type |-> "unstructured", coordset |-> "coords", origin |-> <<>>,
     shape |-> "polyhedral", connectivity |-> <<0, 1, 2, 3>>,
     sizes |-> <<4>>, offsets |-> <<0>>,
     subelements |-> [shape |-> "polygonal",
                      connectivity |-> <<0, 2, 1, 0, 1, 3, 1, 2, 3, 0, 3, 2>>,
                      sizes |-> <<3, 3, 3, 3>>, offsets |-> <<0, 3, 6, 9>>]]

\* a single-shape topology has no elements/sizes
QuadsTopo ==
    [type |-> "unstructured", coordset |-> "coords", origin |-> <<>>,
     shape |-> "quad", connectivity |-> <<0, 1, 2, 3, 1, 4, 5, 2>>]

SourceMeshes ==
    {[topo |-> PolygonalTopo(cells), coords |-> PlaneCoords] :
        cells \in UNION {[1..n -> PolyPool] : n \in 0..MaxPolys}}
    \cup {[topo |-> PolyhedralTopo, coords |-> SpaceCoords],
          [topo |-> QuadsTopo, coords |-> PlaneCoords]}

SourceField(name, topology, association, volume_dependent, values) ==
    [name |-> name, topology |-> topology, association |-> association,
     volume_dependent |-> volume_dependent, values |-> values]

FieldPool ==
    {SourceField("den", Str("mesh"), Str("element"), Str("true"), <<12, 30, 7>>),
     SourceField("mat", Str("mesh"), Absent, Str("false"), <<4, 9, 2>>),
     SourceField("tmp", Str("mesh"), Str("vertex"), Absent, <<1, 2, 4, 8, 16, 32>>),
     SourceField("bad", Str("mesh"), Str("vertex"), Str("true"), <<1, 2, 4, 8, 16, 32>>),
     SourceField("oth", Str("other"), Str("element"), Absent, <<5, 5, 5>>),
     SourceField("set", Absent, Str("face"), Absent, <<5, 5, 5>>)}

FieldLists ==
    {fs \in UNION {[1..n -> FieldPool] : n \in 0..MaxFields} :
        \A i, j \in DOMAIN fs : i # j => fs[i].name # fs[j].name}

NameList(k, names) == [k |-> k, ch |-> [i \in DOMAIN names |-> Str(names[i])]]
OptionsPool ==
    {[field_prefix |-> Str("s_"),  field_names |-> NameList("absent", <<>>)],
     [field_prefix |-> Absent,     field_names |-> NameList("str", <<"den">>)],
     [field_prefix |-> Str("s_"),  field_names |-> NameList("list", <<"tmp", "mat">>)],
     [field_prefix |-> Absent,     field_names |-> NameList("list", <<"oth">>)],
     [field_prefix |-> Absent,     field_names |-> NameList("list", <<"set">>)],
     [field_prefix |-> IntLeaf,    field_names |-> NameList("absent", <<>>)],
     [field_prefix |-> Absent,     field_names |-> [k |-> "list", ch |-> <<IntLeaf>>]],
     [field_prefix |-> Absent,     field_names |-> NameList("int", <<>>)]}

DefaultOptions == [field_prefix |-> Absent, field_names |-> NameList("absent", <<>>)]
TwoCells == [topo |-> PolygonalTopo(<<<<0, 1, 2, 3>>, <<1, 4, 5, 2>>>>), coords |-> PlaneCoords]

\* every mesh with every field list under the default options, and every
\* options node with every field list on the mesh of the two squares
MeshInputs ==
    {[kind |-> "mesh", topo_name |-> "mesh", topo |-> mo[1].topo, coords |-> mo[1].coords,
      fields |-> [k |-> "object", ch |-> fs], options |-> mo[2]] :
        mo \in (SourceMeshes \X {DefaultOptions}) \cup ({TwoCells} \X OptionsPool),
        fs \in FieldLists}

\* simplex connectivities over four points, for vertex_associated_field alone
VertexInputs ==
    {[kind |-> "vertex", connectivity |-> Flatten(tris), orig_num_points |-> n,
      new_num_points |-> 4, values |-> <<3, 9, 6, 1>>] :
        tris \in UNION {[1..k -> {<<0, 1, 2>>, <<1, 0, 3>>, <<2, 3, 2>>, <<1, 3, 2>>}] :
                          k \in 1..2},
        n \in 1..3}

InitFields ==
    /\ cin \in MeshInputs \cup VertexInputs
    /\ cout = [none |-> TRUE]
    /\ cphase = "input"
    /\ IdleVerify /\ IdlePart

\* mesh::topology::unstructured::generate_sides(topo, ..., fields_dest, ..., options)
GenerateSidesFields ==
    /\ cphase = "input" /\ cin.kind = "mesh"
    /\ cout' = generate_sides_fields(cin, generate_sides(cin.topo, Len(cin.coords[1]), "coords"))
    /\ cphase' = "fields"
    /\ UNCHANGED <<cin, verifyVars, partVars>>

\* detail::vertex_associated_field on a 2D side topology
MapVertexField ==
    /\ cphase = "input" /\ cin.kind = "vertex"
    /\ cout' = [values |-> vertex_associated_field(cin.connectivity, cin.values,
                               cin.orig_num_points, cin.new_num_points, 2)]
    /\ cphase' = "vertex"
    /\ UNCHANGED <<cin, verifyVars, partVars>>

NextFields == GenerateSidesFields \/ MapVertexField

SpecFields == InitFields /\ [][NextFields]_vars

-----------------------------------------------------------------------------
(* Claims on the field mapping                                              *)

\* the source fields the call maps: selected, and on the source topology
MappedFields ==
    {f \in Range(cin.fields.ch) :
        /\ cin.options.field_names.k = "absent"
             \/ f.name \in Range(options_names(cin.options))
        /\ f.topology = Str(cin.topo_name)}
MappedName(f) == options_prefix(cin.options) \o f.name
SidesOf(c) == {s \in DOMAIN cout.d2smap.values : cout.d2smap.values[s] = c - 1}
Returned_Fields == cphase = "fields" /\ ~cout.fatal

\* C11: for every element-associated volume-dependent field mapped by
\* generate_sides and every source cell c with value v, the mapped values of
\* the sides of c sum to v; for an element-associated field that is not
\* volume-dependent every side of c holds the value of c.
C11_SidesSum ==
    Returned_Fields =>
        \A f \in MappedFields : \A c \in DOMAIN cin.topo.sizes :
            /\ (f.association # Str("vertex") /\ f.volume_dependent = Str("true"))
                 => QSum([s \in DOMAIN cout.d2smap.values |->
                             IF s \in SidesOf(c)
                             THEN cout.fields_dest[MappedName(f)].values[s]
                             ELSE Q(0, 1)]) = Q(f.values[c], 1)
            /\ (f.association # Str("vertex") /\ f.volume_dependent # Str("true"))
                 => \A s \in SidesOf(c) :
                       cout.fields_dest[MappedName(f)].values[s] = f.values[c]

\* the vertices other than p of the simplices of conn that have p as a corner
Adjacent(conn, iter, p) ==
    {conn[k] : k \in {k \in DOMAIN conn :
                        \E j \in DOMAIN conn : /\ conn[j] = p
                                               /\ (j - 1) \div iter = (k - 1) \div iter}}
        \ {p}
OriginalAdjacent(conn, iter, p, orig) == {q \in Adjacent(conn, iter, p) : q < orig}
RECURSIVE SumOver(_, _)
SumOver(data, S) ==
    IF S = {} THEN 0
    ELSE data[(CHOOSE q \in S : TRUE) + 1] + SumOver(data, S \ {CHOOSE q \in S : TRUE})

\* the values the claim prescribes for a vertex field
VertexLaw(conn, iter, data, orig, out) ==
    \A i \in DOMAIN out :
        IF i - 1 < orig THEN out[i] = Q(data[i], 1)
        ELSE IF OriginalAdjacent(conn, iter, i - 1, orig) # {}
        THEN out[i] = Q(SumOver(data, OriginalAdjacent(conn, iter, i - 1, orig)),
                        Cardinality(OriginalAdjacent(conn, iter, i - 1, orig)))
        ELSE out[i] = Q(0, 1)

AcceptedInput ==
    /\ ~options_fatal(cin.options, cin.fields)
    /\ \A f \in Range(cin.fields.ch) :
          (cin.options.field_names.k = "absent"
             \/ f.name \in Range(options_names(cin.options)))
          => /\ f.topology.k = "str"
             /\ cin.options.field_names.k # "absent" => f.topology.v = cin.topo_name
             /\ f.topology.v = cin.topo_name => ~field_fatal(f)

\* C13: generate_sides with field mapping always emits original_element_ids
\* (entry s the parent cell of side s) and original_vertex_ids (entry i is i
\* below the source vertex count and -1 above), whatever fields are
\* selected, and emits volume exactly when a volume-dependent field was
\* processed.
C13_AuxFields ==
    (cphase = "fields" /\ AcceptedInput) =>
        /\ (options_prefix(cin.options) \o "original_element_ids") \in DOMAIN cout.fields_dest
        /\ cout.fields_dest[options_prefix(cin.options) \o "original_element_ids"].values
             = cout.d2smap.values
        /\ (options_prefix(cin.options) \o "original_vertex_ids") \in DOMAIN cout.fields_dest
        /\ cout.fields_dest[options_prefix(cin.options) \o "original_vertex_ids"].values
             = [i \in DOMAIN cout.coords_dest.values[1] |->
                   IF i <= Len(cin.coords[1]) THEN i - 1 ELSE -1]
        /\ (options_prefix(cin.options) \o "volume") \in DOMAIN cout.fields_dest
             <=> \E f \in MappedFields : f.volume_dependent = Str("true")

-----------------------------------------------------------------------------
(* Claims on the converters: frame and conformance                          *)

\* C14: every coordset and topology converter leaves the source topology
\* and its coordset as they were: no step of a converter changes the tree
\* the caller handed in, to_polygonal's removal of "elements" from its
\* external view of the source included.
C14_SourceUnchanged == [][cin' = cin]_vars

C14_Witness ==
    /\ cphase = "polygonal" /\ cin.kind = "topo"
    /\ cin.topo.shape = "hex" /\ cin.topo.connectivity # <<>>
    /\ cout.dest.shape = "polyhedral"
    /\ "subelements" \in DOMAIN cout.dest /\ "subelements" \notin DOMAIN cin.topo

\* the source of the call passes the verify of its own type
SourceVerified ==
    /\ cin.kind = "grid"
    /\ CASE cin.base = "uniform" -> coordset_uniform_verify(cin.coordset)
         [] cin.base = "rectilinear" -> coordset_rectilinear_verify(cin.coordset)
         [] OTHER -> coordset_explicit_verify(cin.coordset)
                     /\ Len(cin.topo.edims) # 0 /\ logical_dims_verify(cin.topo.edims)

\* C15: for a uniform coordset that passes verify, to_rectilinear gives a
\* coordset that passes the rectilinear verify and to_explicit one that
\* passes the explicit verify; every step uniform/rectilinear -> structured
\* -> unstructured gives a topology (and coordset) that passes the verify of
\* its target type.  A converter that leaves through the error handler
\* gives no such result.
C15_Conformance ==
    SourceVerified =>
        /\ cphase # "fatal"
        /\ cphase = "rectilinear" => coordset_rectilinear_verify(cout.cdest)
        /\ cphase = "explicit" => coordset_explicit_verify(cout.cdest)
        /\ cphase = "topology_rectilinear" =>
              /\ grid_topology_verify(cout.dest, "rectilinear")
              /\ coordset_rectilinear_verify(cout.cdest)
        /\ cphase = "structured" =>
              /\ topology_structured_verify(cout.dest)
              /\ coordset_explicit_verify(cout.cdest)
        /\ cphase = "unstructured" =>
              /\ unstructured_verify(cout.dest)
              /\ coordset_explicit_verify(cout.cdest)

-----------------------------------------------------------------------------
(* Claims about repeated verify                                            *)

\* what the caller holds when verify has returned v
Outcome(v) ==
    <<v.info, v.fatal, IF v.fatal THEN "none" ELSE IF v.res THEN "true" ELSE "false">>

\* C16: verify is pure and idempotent: a call of mesh::verify leaves the
\* tree as it was, and whatever info tree it is handed (an empty one, the one
\* of the previous call on the same tree, one filled by the verify of another
\* tree) it returns the boolean and the info tree that a call with an empty
\* info node returns; a repeated call changes neither the boolean nor info.
C16_VerifyIdempotent ==
    [][ vphase' \in {"done", "again"} =>
          /\ mesh' = mesh
          /\ <<info', vfatal', vres'>> = Outcome(mesh_verify(mesh, EmptyInfo))
          /\ (vphase' = "again" => <<info', vfatal', vres'>> = <<info, vfatal, vres>>)
      ]_vars

\* a valid multi-domain tree that has been verified a second time, the
\* second call handed the filled info tree of the first
C16_Witness ==
    /\ vphase = "again"
    /\ vres = "true"
    /\ Len(mesh.doms) >= 1
    /\ Cardinality(DOMAIN info) > 1

-----------------------------------------------------------------------------
(* mesh::field::verify, child by child.  A field is a record of its six    *)
(* children association, basis, topology, values, matset, matset_values,   *)
(* each a leaf or Absent.                                                  *)

ASSOCIATIONS == {"vertex", "element"}

\* blueprint::mlarray::verify with min_depth 0: a numeric array is an
\* mlarray of depth 0, a string leaf is none
mlarray_verify(x) == x.k = "int"

verify_mlarray_field(x, I, p, f) ==
    enum_checked(verify_field_exists(x, Fetch(I, FieldPath(p, f)), p, f),
                 mlarray_verify(x), p, f)

association_verify(x, I, p) ==
    Validate(and_enum_field(Start(NodeReset(I, p)), x, p, "", ASSOCIATIONS), p)

basis_verify(x, I, p) ==
    Validate(and_string_field(Start(NodeReset(I, p)), x, p, ""), p)

\* if(!has_assoc && !has_basis)
field_missing_kind(f, p, st) ==
    IF f.association.k = "absent" /\ f.basis.k = "absent"
    THEN Ret(FALSE, log_error(st.info, p), FALSE)
    ELSE st

\* if(has_assoc) res &= association::verify(field["association"], info["association"])
field_association(f, p, st) ==
    IF f.association.k # "absent"
    THEN AndRes(st, association_verify(f.association,
                        Fetch(st.info, Append(p, "association")), Append(p, "association")))
    ELSE st

\* if(has_basis) res &= basis::verify(field["basis"], info["basis"])
field_basis(f, p, st) ==
    IF f.basis.k # "absent"
    THEN AndRes(st, basis_verify(f.basis,
                        Fetch(st.info, Append(p, "basis")), Append(p, "basis")))
    ELSE st

\* if(!has_topo && !has_matset)
field_missing_ref(f, p, st) ==
    IF f.topology.k = "absent" /\ f.matset.k = "absent"
    THEN Ret(FALSE, log_error(st.info, p), FALSE)
    ELSE st

\* the block of a reference ref and its companion vals
field_companions(f, p, st, ref, vals) ==
    IF (f[ref].k # "absent") # (f[vals].k # "absent")
    THEN Ret(FALSE, log_error(st.info, p), FALSE)
    ELSE IF f[ref].k # "absent"
         THEN AndRes(and_string_field(st, f[ref], p, ref),
                     verify_mlarray_field(f[vals],
                         and_string_field(st, f[ref], p, ref).info, p, vals))
    ELSE st

mesh_field_verify(f, I, p) ==
    Validate(
        field_companions(f, p,
            field_companions(f, p,
                field_missing_ref(f, p,
                    field_basis(f, p,
                        field_association(f, p,
                            field_missing_kind(f, p, Start(NodeReset(I, p)))))),
                "topology", "values"),
            "matset", "matset_values"),
        p)

-----------------------------------------------------------------------------
(* SpecFieldVerify: the caller hands mesh::field::verify one field node.   *)

FieldNodes ==
    [association   : {Absent, Str("vertex"), Str("element"), Str("zonal"), IntLeaf},
     basis         : {Absent, Str("H1"), IntLeaf},
     topology      : {Absent, Str("t1"), IntLeaf},
     values        : {Absent, IntLeaf, Str("s")},
     matset        : {Absent, Str("m1"), IntLeaf},
     matset_values : {Absent, IntLeaf, Str("s")}]

InitFieldVerify ==
    /\ cin \in FieldNodes
    /\ cout = [none |-> TRUE]
    /\ cphase = "input"
    /\ IdleVerify /\ IdlePart

\* mesh::field::verify(field, info)
FieldVerify ==
    /\ cphase = "input"
    /\ cout' = mesh_field_verify(cin, EmptyInfo, <<>>)
    /\ cphase' = "field"
    /\ UNCHANGED <<cin, verifyVars, partVars>>

NextFieldVerify == FieldVerify

SpecFieldVerify == InitFieldVerify /\ [][NextFieldVerify]_vars

Has(c) == cin[c].k # "absent"

\* the rest of the field rule: the association is vertex or element, a
\* reference and its values come together
CompanionsRule ==
    /\ Has("association") => cin.association.v \in ASSOCIATIONS
    /\ Has("topology") <=> Has("values")
    /\ Has("matset") <=> Has("matset_values")

\* C17: mesh::field::verify accepts a field only if exactly one of
\* association and basis is present (the association being vertex or
\* element), topology comes with values and matset with matset_values; a
\* field that carries both association and basis is rejected.
C17_FieldRule ==
    (cphase = "field" /\ cout.res) =>
        /\ Has("association") # Has("basis")
        /\ CompanionsRule

-----------------------------------------------------------------------------
(* Claims about the multi-domain root                                      *)

\* the child passes verify_single_domain
DomainPasses(ch) ==
    /\ ~verify_single_domain(ch.dom, EmptyInfo, <<>>).fatal
    /\ verify_single_domain(ch.dom, EmptyInfo, <<>>).res

\* C18: on a tree without a top-level coordsets child mesh::verify returns
\* true exactly when the tree is empty or is an object or a list whose every
\* child passes the single-domain verify (so an empty tree and an object or
\* list without children are valid), and it returns false for a leaf.
C18_MultiDomain ==
    (vphase \in {"done", "again"} /\ ~IsSingleDomain) =>
        /\ vres = "true" <=>
              \/ mesh.k = "empty"
              \/ /\ mesh.k \in {"object", "list"}
                 /\ \A i \in DOMAIN RootChildren(mesh) : DomainPasses(RootChildren(mesh)[i])
        /\ mesh.k = "leaf" => vres = "false"
        /\ (mesh.k \in {"object", "list"} /\ Len(RootChildren(mesh)) = 0) => vres = "true"

\* a list of two domains, both valid, that verify has accepted
C18_Witness ==
    /\ vphase = "done"
    /\ mesh.k = "list"
    /\ Len(mesh.doms) = 2
    /\ \A i \in DOMAIN mesh.doms : mesh.doms[i].dom = GoodDomain
    /\ vres = "true"

-----------------------------------------------------------------------------
(* External aliasing of one Node.  The memory is the caller's buffer buf   *)
(* and the block own the Node has allocated (<<>> when it has none); the   *)
(* Node is its data state and the block its data pointer points into.      *)

BufLen == 2                  \* elements of the caller's buffer
Values == {0, 1, 2}          \* what an element can hold

Arrays == [1..BufLen -> Values]

EmptyNode == [mode |-> "empty", ptr |-> "none"]

\* Node::set_external(buf): an owned block is released, the data pointer is
\* rebound to the caller's memory, nothing is copied
node_set_external(mem, n) ==
    [mem  |-> [mem EXCEPT !.own = <<>>],
     node |-> [mode |-> "external", ptr |-> "buf"]]

node_set_inplace(mem, n, y) ==
    IF n.mode = "external"
    THEN [mem |-> [mem EXCEPT !.buf = y], node |-> n]
    ELSE [mem |-> [mem EXCEPT !.own = y], node |-> [mode |-> "owned", ptr |-> "own"]]
\* Node::set(y): the Node allocates a fresh block of its own and copies y
\* into it; memory it does not own is left alone
node_set(mem, n, y) ==
    [mem  |-> [mem EXCEPT !.own = y],
     node |-> [mode |-> "owned", ptr |-> "own"]]

\* a read of the Node at index i
node_read(mem, n, i) == mem[n.ptr][i]

\* a write through the Node at index i
node_write(mem, n, i, x) == [mem EXCEPT ![n.ptr][i] = x]

NodeArray == [i \in 1..BufLen |-> node_read(cin, cout, i)]

-----------------------------------------------------------------------------
(* SpecAlias: any sequence of set_external, set, buffer writes and writes  *)
(* through the Node.  cin is the memory, cout the Node, cphase the last    *)
(* operation with its arguments and whether the Node has been external.    *)

Op(name, i, x, was) == [op |-> name, i |-> i, x |-> x, was_external |-> was]

InitAlias ==
    /\ cin \in [buf : Arrays, own : {<<>>}]
    /\ cout = EmptyNode
    /\ cphase = Op("init", 0, 0, FALSE)
    /\ IdleVerify /\ IdlePart

\* n.set_external(buf)
SetExternal ==
    /\ cin' = node_set_external(cin, cout).mem
    /\ cout' = node_set_external(cin, cout).node
    /\ cphase' = Op("set_external", 0, 0, TRUE)
    /\ UNCHANGED <<verifyVars, partVars>>

\* n.set(y)
SetOwned ==
    /\ \E y \in Arrays :
        /\ cin' = node_set(cin, cout, y).mem
        /\ cout' = node_set(cin, cout, y).node
    /\ cphase' = Op("set", 0, 0, cphase.was_external)
    /\ UNCHANGED <<verifyVars, partVars>>

\* buf[i] = x
BufWrite ==
    /\ \E i \in 1..BufLen, x \in Values :
        /\ cin' = [cin EXCEPT !.buf[i] = x]
        /\ cphase' = Op("buf_write", i, x, cphase.was_external)
    /\ UNCHANGED <<cout, verifyVars, partVars>>

\* a write of x through n at index i
NodeWrite ==
    /\ cout.mode # "empty"
    /\ \E i \in 1..BufLen, x \in Values :
        /\ cin' = node_write(cin, cout, i, x)
        /\ cphase' = Op("node_write", i, x, cphase.was_external)
    /\ UNCHANGED <<cout, verifyVars, partVars>>

NextAlias == SetExternal \/ SetOwned \/ BufWrite \/ NodeWrite

SpecAlias == InitAlias /\ [][NextAlias]_vars

-----------------------------------------------------------------------------
(* DataAccessor<T> over a scalar leaf.  A number is [t, a, b]: the integer *)
(* a (t = "int"), 2^b + a (t = "big"), -(2^b) + a (t = "nbig") or the odd  *)
(* number of halves a / 2 (t = "half"), so that the 64-bit ranges need no  *)
(* integer wider than the ones the checker computes with.                  *)

IntV(v)      == [t |-> "int", a |-> v, b |-> 0]
Big(b, off)  == [t |-> "big", a |-> off, b |-> b]
NBig(b, off) == [t |-> "nbig", a |-> off, b |-> b]
Half(k)      == [t |-> "half", a |-> k, b |-> 0]

\* the arithmetic element types: class, width, signedness, significand bits
DataTypes ==
    [int8    |-> [cls |-> "int", bits |-> 8,  signed |-> TRUE,  mant |-> 0],
     int16   |-> [cls |-> "int", bits |-> 16, signed |-> TRUE,  mant |-> 0],
     int32   |-> [cls |-> "int", bits |-> 32, signed |-> TRUE,  mant |-> 0],
     int64   |-> [cls |-> "int", bits |-> 64, signed |-> TRUE,  mant |-> 0],
     uint8   |-> [cls |-> "int", bits |-> 8,  signed |-> FALSE, mant |-> 0],
     uint16  |-> [cls |-> "int", bits |-> 16, signed |-> FALSE, mant |-> 0],
     uint32  |-> [cls |-> "int", bits |-> 32, signed |-> FALSE, mant |-> 0],
     uint64  |-> [cls |-> "int", bits |-> 64, signed |-> FALSE, mant |-> 0],
     float32 |-> [cls |-> "float", bits |-> 32, signed |-> TRUE, mant |-> 24],
     float64 |-> [cls |-> "float", bits |-> 64, signed |-> TRUE, mant |-> 53]]

\* the C-typedef accessors and the bitwidth type each stands for
CTypes ==
    [char |-> "int8", signed_char |-> "int8", signed_short |-> "int16",
     signed_int |-> "int32", signed_long |-> "int64", signed_long_long |-> "int64",
     unsigned_char |-> "uint8", unsigned_short |-> "uint16", unsigned_int |-> "uint32",
     unsigned_long |-> "uint64", unsigned_long_long |-> "uint64",
     float |-> "float32", double |-> "float64"]

TypeOf(T) == IF T \in DOMAIN CTypes THEN DataTypes[CTypes[T]] ELSE DataTypes[T]

\* the value lies in the range of the integer type ty
in_range(x, ty) ==
    CASE x.t = "int" ->
            IF ty.bits <= 16
            THEN IF ty.signed THEN -(2^(ty.bits - 1)) <= x.a /\ x.a <= 2^(ty.bits - 1) - 1
                 ELSE 0 <= x.a /\ x.a <= 2^ty.bits - 1
            ELSE ty.signed \/ x.a >= 0
      [] x.t = "big" ->
            IF ty.signed THEN ty.bits - 1 > x.b \/ (ty.bits - 1 = x.b /\ x.a < 0)
            ELSE ty.bits > x.b \/ (ty.bits = x.b /\ x.a < 0)
      [] OTHER -> FALSE

RECURSIVE ILog2(_)
ILog2(n) == IF n < 2 THEN 0 ELSE 1 + ILog2(n \div 2)

Magnitude(v) == IF v < 0 THEN -v ELSE v

\* round-to-nearest, ties to even, of the multiple q * ulp + rem
round_quotient(q, rem, ulp) ==
    IF 2 * rem > ulp \/ (2 * rem = ulp /\ q % 2 = 1) THEN q + 1 ELSE q

\* the integer v as a float of mant significand bits
round_integer(v, mant) ==
    IF ILog2(Magnitude(v)) < mant THEN IntV(v)
    ELSE IF round_quotient(Magnitude(v) \div 2^(ILog2(Magnitude(v)) - mant + 1),
                           Magnitude(v) % 2^(ILog2(Magnitude(v)) - mant + 1),
                           2^(ILog2(Magnitude(v)) - mant + 1)) = 2^mant
         THEN IF v < 0 THEN NBig(ILog2(Magnitude(v)) + 1, 0)
              ELSE Big(ILog2(Magnitude(v)) + 1, 0)
    ELSE IntV((IF v < 0 THEN -1 ELSE 1)
              * round_quotient(Magnitude(v) \div 2^(ILog2(Magnitude(v)) - mant + 1),
                               Magnitude(v) % 2^(ILog2(Magnitude(v)) - mant + 1),
                               2^(ILog2(Magnitude(v)) - mant + 1))
              * 2^(ILog2(Magnitude(v)) - mant + 1))

\* integer -> float and float -> float: round to nearest
to_float(x, ty) ==
    CASE x.t = "int"  -> round_integer(x.a, ty.mant)
      [] x.t = "big"  -> IF x.a = 0 \/ x.b <= ty.mant THEN x ELSE Big(x.b, 0)
      [] OTHER        -> x

wrap_narrow(v, ty) ==
    IF ty.bits > 16
    THEN IF ty.signed \/ v >= 0 THEN IntV(v) ELSE Big(ty.bits, v)
    ELSE IF ty.signed /\ (v % 2^(ty.bits - 1)) >= 2^(ty.bits - 2)
         THEN IntV((v % 2^(ty.bits - 1)) - 2^(ty.bits - 1))
         ELSE IntV(v % 2^(ty.bits - 1))
\* integer -> integer on an integer the checker can hold: the low bits of
\* the two's complement pattern, read as the target type
wrap(v, ty) ==
    IF ty.bits > 16
    THEN IF ty.signed \/ v >= 0 THEN IntV(v) ELSE Big(ty.bits, v)
    ELSE IF ty.signed /\ (v % 2^ty.bits) >= 2^(ty.bits - 1)
         THEN IntV((v % 2^ty.bits) - 2^ty.bits)
         ELSE IntV(v % 2^ty.bits)

\* integer -> integer: widening is exact, narrowing truncates, signed and
\* unsigned reinterpret the bit pattern
to_integer(x, ty) ==
    CASE x.t = "int" -> wrap(x.a, ty)
      [] x.t = "big" ->
            IF in_range(x, ty) THEN x
            ELSE IF x.b >= ty.bits THEN wrap(x.a, ty)
            ELSE NBig(x.b, x.a)
      [] OTHER -> x

\* float -> integer: the fraction is discarded
truncate(x) ==
    IF x.t = "half"
    THEN IntV(IF x.a < 0 THEN -((-x.a) \div 2) ELSE x.a \div 2)
    ELSE x

\* values of an integer type, for a conversion the language leaves undefined
SomeValues(ty) == { x \in {IntV(0), IntV(1), IntV(127), IntV(-1)} : in_range(x, ty) }

\* DataAccessor<T>::element: the element is read as the leaf kind says and
\* converted to T; the set holds every value the read can yield
element(leaf, T) ==
    IF TypeOf(T).cls = "float" THEN { to_float(leaf.v, TypeOf(T)) }
    ELSE IF DataTypes[leaf.kind].cls = "int" THEN { to_integer(leaf.v, TypeOf(T)) }
    ELSE IF in_range(truncate(leaf.v), TypeOf(T)) THEN { truncate(leaf.v) }
    ELSE SomeValues(TypeOf(T))

\* T holds the value exactly
Representable(x, T) ==
    IF TypeOf(T).cls = "int" THEN in_range(x, TypeOf(T))
    ELSE CASE x.t = "int"  -> \/ ILog2(Magnitude(x.a)) < TypeOf(T).mant
                              \/ Magnitude(x.a) % 2^(ILog2(Magnitude(x.a)) - TypeOf(T).mant + 1) = 0
           [] x.t = "big"  -> x.a = 0 \/ x.b <= TypeOf(T).mant
           [] OTHER        -> TRUE

-----------------------------------------------------------------------------
(* SpecAccessor: a scalar leaf is set to a value of its kind, then read    *)
(* through an accessor obtained by value() or by as_T_accessor().          *)

Numbers ==
    { IntV(v) : v \in {-32769, -32768, -129, -128, -1, 0, 10, 127, 128, 255, 256,
                       32767, 32768, 65535, 65536, 16777216, 16777217, 16777218,
                       16777219, 2147483647, -2147483647} }
    \cup { Big(32, -1), Big(32, 0), Big(63, -1), Big(64, -1) }
    \cup { Half(k) : k \in {-3, -1, 1, 21} }

Kinds == DOMAIN DataTypes

\* n.set((S)v): the leaf holds a value of its own kind
Leaves == { [kind |-> S, v |-> x] : S \in Kinds, x \in Numbers } 

ValidLeaves == { l \in Leaves : Representable(l.v, l.kind) }

InitAccessor ==
    /\ cin \in ValidLeaves
    /\ cout = [none |-> TRUE]
    /\ cphase = "leaf"
    /\ IdleVerify /\ IdlePart

\* T_accessor acc = n.value();
Value ==
    /\ cphase = "leaf"
    /\ \E T \in Kinds : \E r \in element(cin, T) : cout' = [T |-> T, at0 |-> r]
    /\ cphase' = "value"
    /\ UNCHANGED <<cin, verifyVars, partVars>>

\* T_accessor acc = n.as_T_accessor();
AsAccessor ==
    /\ cphase = "leaf"
    /\ \E T \in Kinds \cup DOMAIN CTypes :
         \E r \in element(cin, T) : cout' = [T |-> T, at0 |-> r]
    /\ cphase' = "as_accessor"
    /\ UNCHANGED <<cin, verifyVars, partVars>>

NextAccessor == Value \/ AsAccessor

SpecAccessor == InitAccessor /\ [][NextAccessor]_vars

\* C20: whatever the numeric kind of the scalar leaf and its value v, an
\* accessor of a type T that holds v exactly, obtained by value() or by
\* as_T_accessor() (bitwidth or C name), reads v back at index 0.
C20_AccessorCoercion ==
    (cphase \in {"value", "as_accessor"} /\ Representable(cin.v, cout.T)) =>
        cout.at0 = cin.v

\* the leaf of the source test, int8 10, read through a float64 accessor,
\* and a uint16 leaf read exactly through a wider signed accessor
C20_Witness ==
    \/ /\ cphase = "value"
       /\ cin = [kind |-> "int8", v |-> IntV(10)]
       /\ cout = [T |-> "float64", at0 |-> IntV(10)]
    \/ /\ cphase = "as_accessor"
       /\ cin = [kind |-> "uint16", v |-> IntV(65535)]
       /\ cout = [T |-> "signed_int", at0 |-> IntV(65535)]

-----------------------------------------------------------------------------
(* The error handler slot of conduit::utils.  cin is the process-wide      *)
(* function pointer conduit_on_error, cout what the last handle_error call *)
(* did, cphase the calls made so far: the last operation with its          *)
(* arguments and the handlers installed, in order.                         *)

MaxInstalls == 3             \* set_error_handler calls in one run

Handlers == {"default_error_handler", "log_handler", "abort_handler"}
Messages == {"m1", "m2"}
Files    == {"a.cpp", "b.cpp"}
Lines    == {10, 20}

\* default_error_handler: throws conduit::Error(msg, file, line); any other
\* handler is entered with the three arguments and raises nothing
invoke(h, msg, file, line) ==
    [invoked |-> h, msg |-> msg, file |-> file, line |-> line,
     error |-> IF h = "default_error_handler"
               THEN [thrown |-> TRUE, msg |-> msg, file |-> file, line |-> line]
               ELSE [thrown |-> FALSE, msg |-> "", file |-> "", line |-> 0]]

set_error_handler_once(slot, on_error) ==
    IF slot = "default_error_handler" THEN on_error ELSE slot
\* set_error_handler: conduit_on_error = on_error
set_error_handler(slot, on_error) == on_error

\* handle_error: conduit_on_error(msg, file, line)
handle_error(slot, msg, file, line) == invoke(slot, msg, file, line)

Call(name, msg, file, line, installed) ==
    [op |-> name, msg |-> msg, file |-> file, line |-> line, installed |-> installed]

InitHandler ==
    /\ cin = "default_error_handler"
    /\ cout = [none |-> TRUE]
    /\ cphase = Call("start", "", "", 0, <<>>)
    /\ IdleVerify /\ IdlePart

SetErrorHandler ==
    /\ Len(cphase.installed) < MaxInstalls
    /\ \E h \in Handlers :
        /\ cin' = set_error_handler(cin, h)
        /\ cphase' = Call("set_error_handler", "", "", 0, Append(cphase.installed, h))
    /\ UNCHANGED <<cout, verifyVars, partVars>>

HandleError ==
    /\ \E msg \in Messages, file \in Files, line \in Lines :
        /\ cout' = handle_error(cin, msg, file, line)
        /\ cphase' = Call("handle_error", msg, file, line, cphase.installed)
    /\ UNCHANGED <<cin, verifyVars, partVars>>

NextHandler == SetErrorHandler \/ HandleError

SpecHandler == InitHandler /\ [][NextHandler]_vars

\* the handler a handle_error call has to reach
CurrentHandler ==
    IF cphase.installed = <<>> THEN "default_error_handler"
    ELSE cphase.installed[Len(cphase.installed)]

\* C21: the error handler is one process-wide slot: before any
\* set_error_handler call handle_error raises conduit::Error carrying the
\* message, file and line; after any sequence of set_error_handler calls a
\* handle_error invokes the most recently installed handler, and no other,
\* with the same three arguments.
C21_ErrorHandlerSlot ==
    cphase.op = "handle_error" =>
        /\ cout.invoked = CurrentHandler
        /\ <<cout.msg, cout.file, cout.line>> = <<cphase.msg, cphase.file, cphase.line>>
        /\ cphase.installed = <<>> =>
              cout.error = [thrown |-> TRUE, msg |-> cphase.msg,
                            file |-> cphase.file, line |-> cphase.line]
        /\ CurrentHandler # "default_error_handler" => ~cout.error.thrown

\* two handlers were installed one after the other and handle_error has
\* entered the second
C21_Witness ==
    /\ cphase.op = "handle_error"
    /\ cphase.installed = <<"log_handler", "abort_handler">>
    /\ cout.invoked = "abort_handler"
    /\ cout.line = 20

-----------------------------------------------------------------------------
(* Claims about the options and the inputs of the partition driver         *)

NoDomains == \A r \in Ranks : ranks[r].doms = <<>>

\* the collectives behind the two domain counts
LaterCollectives == {"rv", "re", "rc", "pm"}

\* C22: when no rank holds a domain, generate_partition_field returns on
\* every rank: no rank raises an error, the mesh of every rank stays without
\* a child, and no rank enters a reduction or the partitioner after the
\* domain counts; the ranks can always go on until all have returned.
C22_NoDomainsReturn ==
    NoDomains =>
        /\ \A r \in Ranks :
              /\ ranks[r].pc \in {"start", "nd1", "nd2", "returned"}
              /\ ranks[r].doms = <<>>
              /\ \A c \in LaterCollectives : reduce[c][r] = NotPosted
        /\ (\A r \in Ranks : ranks[r].pc = "returned") \/ ENABLED NextPart

\* every rank has returned from a run without domains
C22_Witness ==
    /\ NoDomains
    /\ \A r \in Ranks : ranks[r].pc = "returned"

\* the options name a topology that no domain of any rank carries
NoCarrier ==
    /\ popts.topology.has
    /\ ~NoDomains
    /\ \A r \in Ranks : \A i \in DOMAIN ranks[r].doms :
          ~has_topo(ranks[r].doms[i], popts.topology.v)

\* C23: when the options name a topology that no domain on any rank
\* carries, the driver ends in a fatal error on every rank that goes past
\* its options, whatever the other options are; no rank reaches the
\* partitioner and no domain gains a child.
C23_UnknownTopologyFatal ==
    NoCarrier =>
        \A r \in Ranks :
            /\ ranks[r].pc \in {"start", "nd1", "rv", "re", "nd2", "fatal"}
            /\ reduce["pm"][r] = NotPosted
            /\ \A i \in DOMAIN ranks[r].doms :
                  /\ ranks[r].doms[i].created = {}
                  /\ ranks[r].doms[i].fields = <<>>

\* C24: when the options omit topology, every rank that has read its
\* options uses the name of the first topology of the first domain of rank
\* 0, and no rank reads the first entry of an empty domain list.
C24_DefaultTopology ==
    (~popts.topology.has /\ ranks[0].doms # <<>>) =>
        \A r \in Ranks :
            /\ ranks[r].pc # "crashed"
            /\ ranks[r].topo_name \in {"", ranks[0].doms[1].topos[1].name}

\* the domain carries the chosen topology and it is of a structured family
GridCarrier(s, d) ==
    /\ has_topo(d, s.topo_name)
    /\ topo_of(d, s.topo_name).edims # <<>>

\* C25: a rank that holds a domain whose chosen topology is of a structured
\* family goes through the driver without a fatal error, and once it is
\* done the domain has a parmetis_result field with one entry per element.
C25_StructuredFamilies ==
    \A r \in Ranks : \A i \in DOMAIN ranks[r].doms :
        GridCarrier(ranks[r], ranks[r].doms[i]) =>
            /\ ranks[r].pc # "fatal"
            /\ ranks[r].pc = "done" =>
                  /\ (ranks[r].field_prefix \o "parmetis_result")
                        \in DOMAIN ranks[r].doms[i].fields
                  /\ Len(ranks[r].doms[i].fields[
                            ranks[r].field_prefix \o "parmetis_result"].values)
                        = Prod(topo_of(ranks[r].doms[i], ranks[r].topo_name).edims)

-----------------------------------------------------------------------------
(* SpecWindow: mesh::adjset::verify and mesh::nestset::verify on one       *)
(* window.  A window is a record of its children origin, dims and ratio,   *)
(* each [k, names, n, ints]: the kind of the child, the names of its own    *)
(* children, their number, and whether they are integer leaves.            *)

AxisNames == {"i", "j", "k"}

LogicalDims(names, ints) ==
    [k |-> "object", names |-> names, n |-> Cardinality(names), ints |-> ints]

NoDims == [k |-> "absent", names |-> {}, n |-> 0, ints |-> TRUE]

\* mesh::logical_dims::verify on a window child: "i" is required, "j" and
\* "k" are verified when present
window_logical_dims_verify(x) == "i" \in x.names /\ x.ints

\* an index_t handed to a bool parameter
index_as_bool(n) == n # 0

object_field(x, allow_list, allow_empty, num_children) ==
    verify_object_field(x, EmptyInfo, <<>>, "f", allow_list, allow_empty, num_children).res

\* verify_field_exists(..) && mesh::logical_dims::verify(..)
window_child(x) == x.k # "absent" /\ window_logical_dims_verify(x)

\* if(window_res): the fifth argument of verify_object_field is allow_empty,
\* so window_dim is taken as a bool and num_children keeps its default 0
adjset_window_dim(w, window_dim) ==
    /\ w.dims.k = "absent" \/ object_field(w.dims, FALSE, index_as_bool(window_dim), 0)
    /\ w.ratio.k = "absent" \/ object_field(w.ratio, FALSE, index_as_bool(window_dim), 0)

\* the body of the window loop of mesh::adjset::verify
adjset_window_verify(w) ==
    /\ window_child(w.origin) /\ window_child(w.dims) /\ window_child(w.ratio)
    /\ adjset_window_dim(w, w.origin.n)

\* if(window_res): all seven arguments are given
nestset_window_dim(w, window_dim) ==
    /\ w.origin.k = "absent" \/ object_field(w.origin, FALSE, FALSE, window_dim)
    /\ w.dims.k = "absent" \/ object_field(w.dims, FALSE, FALSE, window_dim)

\* the body of the window loop of mesh::nestset::verify; domain_id and
\* domain_type are w.domain_id and w.domain_type
nestset_window_verify(w) ==
    /\ w.domain_id.k = "int"
    /\ w.domain_type.k = "str" /\ w.domain_type.v \in {"parent", "child"}
    /\ window_child(w.ratio)
    /\ w.origin.k = "absent" \/ window_logical_dims_verify(w.origin)
    /\ w.dims.k = "absent" \/ window_logical_dims_verify(w.dims)
    /\ nestset_window_dim(w, w.ratio.n)

\* mesh::adjset::verify on an adjset with one group g holding one window
adjset_verify_windows(a) ==
    /\ a.topology.k = "str"
    /\ a.association.k = "str" /\ a.association.v \in ASSOCIATIONS
    /\ a.g.neighbors.k = "int"
    /\ adjset_window_verify(a.g.w)

\* mesh::nestset::verify on a nestset with one window
nestset_verify_windows(a) ==
    /\ a.topology.k = "str"
    /\ a.association.k = "str" /\ a.association.v \in ASSOCIATIONS
    /\ nestset_window_verify(a.w)

DimsChoices ==
    {NoDims, LogicalDims({"i", "j"}, FALSE), LogicalDims({"j"}, TRUE)}
        \cup { LogicalDims(a, TRUE) : a \in {{"i"}, {"i", "j"}, AxisNames} }

Windows ==
    [origin : DimsChoices, dims : DimsChoices, ratio : DimsChoices,
     domain_id : {IntLeaf}, domain_type : {Str("child")}]

Adjset(w) ==
    [topology |-> Str("t"), association |-> Str("vertex"),
     g |-> [neighbors |-> IntLeaf, w |-> w]]

Nestset(w) ==
    [topology |-> Str("t"), association |-> Str("element"), w |-> w]

InitWindow ==
    /\ cin \in Windows
    /\ cout = FALSE
    /\ cphase = "input"
    /\ IdleVerify /\ IdlePart

\* mesh::adjset::verify(adjset, info)
AdjsetVerify ==
    /\ cphase = "input"
    /\ cout' = adjset_verify_windows(Adjset(cin))
    /\ cphase' = "adjset"
    /\ UNCHANGED <<cin, verifyVars, partVars>>

\* mesh::nestset::verify(nestset, info)
NestsetVerify ==
    /\ cphase = "input"
    /\ cout' = nestset_verify_windows(Nestset(cin))
    /\ cphase' = "nestset"
    /\ UNCHANGED <<cin, verifyVars, partVars>>

NextWindow == AdjsetVerify \/ NestsetVerify

SpecWindow == InitWindow /\ [][NextWindow]_vars

AxesDiffer(x, y) == x.k # "absent" /\ y.k # "absent" /\ x.n # y.n

\* C26: mesh::adjset::verify rejects a window whose dims or ratio has another
\* number of logical names than its origin, as mesh::nestset::verify rejects a
\* window whose origin or dims has another number of names than its ratio.
C26_WindowAxes ==
    /\ (cphase = "adjset" /\ (AxesDiffer(cin.dims, cin.origin) \/ AxesDiffer(cin.ratio, cin.origin)))
          => ~cout
    /\ (cphase = "nestset" /\ (AxesDiffer(cin.origin, cin.ratio) \/ AxesDiffer(cin.dims, cin.ratio)))
          => ~cout

-----------------------------------------------------------------------------
(* SpecAdjset: mesh::adjset::to_pairwise and mesh::adjset::to_maxshare.    *)
(* The groups of an adjset are a sequence in the order of their sorted     *)
(* names; a group is [neighbors, values], two sequences of integers (the   *)
(* element-wise to_index_t reads).  A converted adjset is the sequence of  *)
(* its groups in the order they were created, each with its name.          *)

MaxAdjGroups == 2

NeighborLists == {<<>>, <<1>>, <<2>>, <<1, 2>>, <<2, 1>>, <<1, 1>>}
ValueLists    == {<<>>, <<10>>, <<11>>, <<10, 11>>, <<11, 10>>, <<10, 10>>}

AdjGroups == [neighbors : NeighborLists, values : ValueLists]

Adjsets == UNION { [1..n -> AdjGroups] : n \in 0..MaxAdjGroups }

\* the elements of a std::set or the keys of a std::map, in iteration order
RECURSIVE Ascending(_)
Ascending(S) ==
    IF S = {} THEN <<>>
    ELSE LET m == CHOOSE x \in S : \A y \in S : x <= y
         IN  <<m>> \o Ascending(S \ {m})

\* std::vector<index_t> &neighbor_values = pair_values_map[neighbor_id];
\* neighbor_values.insert(neighbor_values.end(), group_values...)
pair_insert(m, neighbor_id, group_values) ==
    [k \in DOMAIN m \cup {neighbor_id} |->
        (IF k \in DOMAIN m THEN m[k] ELSE <<>>)
            \o (IF k = neighbor_id THEN group_values ELSE <<>>)]

\* for(const index_t &neighbor_id : group_neighbors)
RECURSIVE pair_neighbors(_, _, _, _)
pair_neighbors(m, group_neighbors, i, group_values) ==
    IF i > Len(group_neighbors) THEN m
    ELSE pair_neighbors(pair_insert(m, group_neighbors[i], group_values),
                        group_neighbors, i + 1, group_values)

\* for(const std::string &group_name : adjset_group_names)
RECURSIVE pair_values_map(_, _, _)
pair_values_map(m, groups, g) ==
    IF g > Len(groups) THEN m
    ELSE pair_values_map(pair_neighbors(m, groups[g].neighbors, 1, groups[g].values),
                         groups, g + 1)

\* bputils::adjset::canonicalize: every group is renamed after the sorted
\* ids of its neighbors (the domain's own id is part of every name)
canonicalize(groups) ==
    [i \in DOMAIN groups |->
        [name      |-> Ascending(Range(groups[i].neighbors)),
         neighbors |-> groups[i].neighbors,
         values    |-> groups[i].values]]

\* the destination loop of to_pairwise: one group per key of the map
pairwise_groups(m, keys) ==
    [i \in DOMAIN keys |-> [neighbors |-> <<keys[i]>>, values |-> m[keys[i]]]]

pairwise_map(groups) == pair_values_map([k \in {} |-> <<>>], groups, 1)

to_pairwise(groups) ==
    canonicalize(pairwise_groups(pairwise_map(groups),
                                 Ascending(DOMAIN pairwise_map(groups))))

\* std::set<index_t> &entity_groupset = entity_groupset_map[entity_id];
\* entity_groupset.insert(group_neighbors...)
groupset_insert(m, entity_id, group_neighbors) ==
    [k \in DOMAIN m \cup {entity_id} |->
        (IF k \in DOMAIN m THEN m[k] ELSE {})
            \cup (IF k = entity_id THEN Range(group_neighbors) ELSE {})]

\* for(const index_t &entity_id : group_values)
RECURSIVE groupset_values(_, _, _, _)
groupset_values(m, group_values, i, group_neighbors) ==
    IF i > Len(group_values) THEN m
    ELSE groupset_values(groupset_insert(m, group_values[i], group_neighbors),
                         group_values, i + 1, group_neighbors)

RECURSIVE entity_groupset_map(_, _, _)
entity_groupset_map(m, groups, g) ==
    IF g > Len(groups) THEN m
    ELSE entity_groupset_map(groupset_values(m, groups[g].values, 1, groups[g].neighbors),
                             groups, g + 1)

\* the group nodes of the destination, one per distinct groupset, created
\* in the order of the entity ids
RECURSIVE groupset_groupnodes(_, _, _, _)
groupset_groupnodes(out, entities, i, egm) ==
    IF i > Len(entities) THEN out
    ELSE groupset_groupnodes(
             IF \E o \in Range(out) : o.groupset = egm[entities[i]] THEN out
             ELSE Append(out, [groupset  |-> egm[entities[i]],
                               neighbors |-> Ascending(egm[entities[i]])]),
             entities, i + 1, egm)

maxshare_push_always(valuelist, group_entity) == Append(valuelist, group_entity)
\* if(groupset_valueset.find(group_entity) == groupset_valueset.end())
maxshare_push(valuelist, group_entity) ==
    IF group_entity \in Range(valuelist) THEN valuelist
    ELSE Append(valuelist, group_entity)

\* auto &groupset_pair = groupset_values_map[entity_groupset_map[group_entity]]
valuelist_insert(m, groupset, group_entity) ==
    [k \in DOMAIN m \cup {groupset} |->
        IF k = groupset
        THEN maxshare_push(IF k \in DOMAIN m THEN m[k] ELSE <<>>, group_entity)
        ELSE m[k]]

RECURSIVE group_valuelists(_, _, _, _)
group_valuelists(m, group_values, i, egm) ==
    IF i > Len(group_values) THEN m
    ELSE group_valuelists(valuelist_insert(m, egm[group_values[i]], group_values[i]),
                          group_values, i + 1, egm)

RECURSIVE groupset_values_map(_, _, _, _)
groupset_values_map(m, groups, g, egm) ==
    IF g > Len(groups) THEN m
    ELSE groupset_values_map(group_valuelists(m, groups[g].values, 1, egm),
                             groups, g + 1, egm)

\* the last loop of to_maxshare: the values of every group node are set
maxshare_groups(nodes, gvm) ==
    [i \in DOMAIN nodes |->
        [neighbors |-> nodes[i].neighbors, values |-> gvm[nodes[i].groupset]]]

maxshare_built(groups, egm) ==
    maxshare_groups(groupset_groupnodes(<<>>, Ascending(DOMAIN egm), 1, egm),
                    groupset_values_map([k \in {} |-> <<>>], groups, 1, egm))

to_maxshare(groups) ==
    canonicalize(maxshare_built(groups, entity_groupset_map([k \in {} |-> {}], groups, 1)))

\* mesh::adjset::is_pairwise
is_pairwise(groups) == \A i \in DOMAIN groups : Len(groups[i].neighbors) = 1

\* mesh::adjset::is_maxshare: no id is met twice over the values of all groups
is_maxshare(groups) ==
    \A i, j \in DOMAIN groups :
        \A a \in DOMAIN groups[i].values, b \in DOMAIN groups[j].values :
            groups[i].values[a] = groups[j].values[b] => (i = j /\ a = b)

\* std::sort on the group names: names made of one-digit ids compare as
\* their id sequences do
RECURSIVE NameLess(_, _)
NameLess(a, b) ==
    IF a = <<>> THEN b # <<>>
    ELSE IF b = <<>> THEN FALSE
    ELSE IF Head(a) # Head(b) THEN Head(a) < Head(b)
    ELSE NameLess(Tail(a), Tail(b))

RECURSIVE SortedByName(_)
SortedByName(S) ==
    IF S = {} THEN <<>>
    ELSE LET m == CHOOSE x \in S : \A y \in S \ {x} : NameLess(x.name, y.name)
         IN  <<m>> \o SortedByName(S \ {m})

\* the groups of a converted adjset as a later conversion reads them
AsSource(result) ==
    LET s == SortedByName(Range(result))
    IN  [i \in DOMAIN s |-> [neighbors |-> s[i].neighbors, values |-> s[i].values]]

InitAdjset ==
    /\ cin \in Adjsets
    /\ cout = <<>>
    /\ cphase = "input"
    /\ IdleVerify /\ IdlePart

\* mesh::adjset::to_pairwise(adjset, dest)
ToPairwise ==
    /\ cphase = "input"
    /\ cout' = to_pairwise(cin)
    /\ cphase' = "pairwise"
    /\ UNCHANGED <<cin, verifyVars, partVars>>

\* mesh::adjset::to_maxshare(adjset, dest)
ToMaxshare ==
    /\ cphase = "input"
    /\ cout' = to_maxshare(cin)
    /\ cphase' = "maxshare"
    /\ UNCHANGED <<cin, verifyVars, partVars>>

\* mesh::adjset::to_maxshare(dest, dest2) on the result of a to_maxshare
ToMaxshareAgain ==
    /\ cphase = "maxshare"
    /\ cout' = to_maxshare(AsSource(cout))
    /\ cphase' = "again"
    /\ UNCHANGED <<cin, verifyVars, partVars>>

NextAdjset == ToPairwise \/ ToMaxshare \/ ToMaxshareAgain

SpecAdjset == InitAdjset /\ [][NextAdjset]_vars

\* the entities some source group shares with neighbor n
SharedWith(n) ==
    UNION { Range(cin[g].values) : g \in { h \in DOMAIN cin : n \in Range(cin[h].neighbors) } }

Occurrences(s, e) == Cardinality({ i \in DOMAIN s : s[i] = e })

\* C27: to_pairwise gives groups of exactly one neighbor each, no two with
\* the same neighbor, and the values of the group of a neighbor hold every
\* entity some source group shares with that neighbor exactly once; so
\* is_pairwise holds on the result.
C27_PairwiseGroups ==
    cphase = "pairwise" =>
        /\ is_pairwise(cout)
        /\ \A i, j \in DOMAIN cout : cout[i].neighbors = cout[j].neighbors => i = j
        /\ \A i \in DOMAIN cout :
              LET n == cout[i].neighbors[1]
              IN  /\ Range(cout[i].values) = SharedWith(n)
                  /\ \A e \in SharedWith(n) : Occurrences(cout[i].values, e) = 1

\* the neighbors of all source groups that hold entity e
NeighborsOf(e) ==
    UNION { Range(cin[g].neighbors) : g \in { h \in DOMAIN cin : e \in Range(cin[h].values) } }

SourceEntities == UNION { Range(cin[g].values) : g \in DOMAIN cin }

MaxshareForm ==
    cphase = "maxshare" =>
        /\ \A e \in SourceEntities :
              \E i \in DOMAIN cout :
                  /\ Occurrences(cout[i].values, e) = 1
                  /\ Range(cout[i].neighbors) = NeighborsOf(e)
                  /\ \A j \in DOMAIN cout \ {i} : e \notin Range(cout[j].values)
        /\ \A i \in DOMAIN cout : Range(cout[i].values) \subseteq SourceEntities
        /\ \A i, j \in DOMAIN cout :
              Range(cout[i].neighbors) = Range(cout[j].neighbors) => i = j
        /\ is_maxshare(cout)

\* C28: to_maxshare puts every entity of the source in exactly one group,
\* exactly once, the neighbors of that group being the union of the neighbors
\* of all source groups holding the entity; no two result groups have the
\* same neighbor set, is_maxshare holds on the result, and to_maxshare of the
\* result gives the same groups.
C28_MaxshareGroups ==
    /\ []MaxshareForm
    /\ [][(cphase = "maxshare" /\ cphase' = "again") => cout' = cout]_vars

C28_Witness ==
    /\ cphase = "again"
    /\ Len(cin) = 2 /\ Len(cout) = 2
    /\ \E i \in DOMAIN cout : Len(cout[i].neighbors) = 2
    /\ \E e \in Range(cin[1].values) \cap Range(cin[2].values) :
          Range(cin[1].neighbors) # Range(cin[2].neighbors)

-----------------------------------------------------------------------------
(* SpecSanitize: utils::json_sanitize.  A text is a sequence of one-       *)
(* character strings.  The result is a sequence of [c, i]: the character   *)
(* and the (1-based) position of the input it was copied from, 0 for a     *)
(* double quote the function adds.                                         *)

MaxJsonLen == 4

Quote     == "\""
Backslash == "\\"
Newline   == "\n"

UpperCase == {"A", "Z"}
LowerCase == {"a", "e", "f", "l", "r", "s", "t", "u", "z"}

check_word_char(v) == v \in UpperCase \/ v \in LowerCase \/ v = "_"

check_num_char(v) == v \in {"0", "1", "9"}

Chars(items) == [k \in DOMAIN items |-> items[k].c]

Added == [c |-> Quote, i |-> 0]

\* the parser's locals before the loop
SanitizeStart ==
    [res |-> <<>>, in_comment |-> FALSE, in_string |-> FALSE, in_id |-> FALSE,
     cur_id |-> <<>>, emit |-> TRUE]

\* check for start & end of a string
sanitize_quote(json, i, s) ==
    IF json[i] = Quote /\ (i > 1 /\ json[i - 1] # Backslash)
    THEN [s EXCEPT !.in_string = ~s.in_string]
    ELSE s

\* '//' starts a comment
sanitize_comment_start(json, i, s) ==
    IF ~s.in_comment /\ json[i] = "/" /\ i < Len(json) /\ json[i + 1] = "/"
    THEN [s EXCEPT !.in_comment = TRUE, !.emit = FALSE]
    ELSE s

\* the finished id goes to the result, true and false without quotes
finish_id(s) ==
    [s EXCEPT !.in_id = FALSE, !.cur_id = <<>>,
              !.res = IF Chars(s.cur_id) \in {<<"t", "r", "u", "e">>, <<"f", "a", "l", "s", "e">>}
                      THEN s.res \o s.cur_id
                      ELSE s.res \o <<Added>> \o s.cur_id \o <<Added>>]

accum_id(json, i, s) ==
    [s EXCEPT !.in_id = TRUE, !.cur_id = Append(s.cur_id, [c |-> json[i], i |-> i]),
              !.emit = FALSE]

\* the second if(!in_comment) block: unquoted ids
sanitize_id(json, i, s) ==
    IF s.in_comment THEN s
    ELSE IF ~s.in_id /\ check_word_char(json[i]) THEN accum_id(json, i, s)
    ELSE IF s.in_id
         THEN IF check_word_char(json[i]) \/ check_num_char(json[i])
              THEN accum_id(json, i, s)
              ELSE finish_id(s)
    ELSE s

\* if(in_comment): nothing is emitted, a newline ends the comment
sanitize_comment(json, i, s) ==
    IF s.in_comment
    THEN [s EXCEPT !.emit = FALSE, !.in_comment = json[i] # Newline]
    ELSE s

\* if(!in_string) { ... }
sanitize_outside(json, i, s) ==
    IF s.in_string THEN s
    ELSE sanitize_comment(json, i, sanitize_id(json, i, sanitize_comment_start(json, i, s)))

\* if(emit) res += json[i]
sanitize_emit(json, i, s) ==
    IF s.emit THEN [s EXCEPT !.res = Append(s.res, [c |-> json[i], i |-> i])] ELSE s

\* one pass of the loop body
sanitize_char(json, i, s) ==
    sanitize_emit(json, i,
        sanitize_outside(json, i, sanitize_quote(json, i, [s EXCEPT !.emit = TRUE])))

RECURSIVE sanitize_loop(_, _, _)
sanitize_loop(json, i, s) ==
    IF i > Len(json) THEN s
    ELSE sanitize_loop(json, i + 1, sanitize_char(json, i, s))

json_sanitize(json) == sanitize_loop(json, 1, SanitizeStart).res

Alphabet == {"a", "1", ":", "/", Quote, Newline, Backslash}

Texts == UNION { [1..n -> Alphabet] : n \in 0..MaxJsonLen }

KeywordTexts ==
    {<<"t", "r", "u", "e", ":">>, <<"f", "a", "l", "s", "e", ":">>,
     <<"_", "Z", "9", ":", "t", "r", "u", "e", Newline>>,
     <<"A", ":", "f", "a", "l", "s", "e", "/", "/", "z", Newline>>}

InitSanitize ==
    /\ cin \in Texts \cup KeywordTexts
    /\ cout = <<>>
    /\ cphase = "input"
    /\ IdleVerify /\ IdlePart

\* utils::json_sanitize(json)
JsonSanitize ==
    /\ cphase = "input"
    /\ cout' = json_sanitize(cin)
    /\ cphase' = "sanitized"
    /\ UNCHANGED <<cin, verifyVars, partVars>>

NextSanitize == JsonSanitize

SpecSanitize == InitSanitize /\ [][NextSanitize]_vars

(* What the text is made of: every position is part of a string literal,   *)
(* of a comment (its closing newline is "eol"), of an unquoted identifier  *)
(* or is another character; run is the position its literal or identifier  *)
(* starts at.                                                              *)
Escaped(json, i) == i > 1 /\ json[i - 1] = Backslash

RECURSIVE Lex(_, _, _, _)
Lex(json, i, mode, run) ==
    IF i > Len(json) THEN <<>>
    ELSE IF mode = "string"
         THEN <<[cls |-> "string", run |-> run]>>
              \o Lex(json, i + 1,
                     IF json[i] = Quote /\ ~Escaped(json, i) THEN "code" ELSE "string", run)
    ELSE IF mode = "comment"
         THEN IF json[i] = Newline
              THEN <<[cls |-> "eol", run |-> 0]>> \o Lex(json, i + 1, "code", 0)
              ELSE <<[cls |-> "comment", run |-> 0]>> \o Lex(json, i + 1, "comment", 0)
    ELSE IF json[i] = Quote /\ ~Escaped(json, i)
         THEN <<[cls |-> "string", run |-> i]>> \o Lex(json, i + 1, "string", i)
    ELSE IF json[i] = "/" /\ i < Len(json) /\ json[i + 1] = "/"
         THEN <<[cls |-> "comment", run |-> 0]>> \o Lex(json, i + 1, "comment", 0)
    ELSE IF check_word_char(json[i]) \/ (run # 0 /\ check_num_char(json[i]))
         THEN <<[cls |-> "id", run |-> IF run # 0 THEN run ELSE i]>>
              \o Lex(json, i + 1, "code", IF run # 0 THEN run ELSE i)
    ELSE <<[cls |-> "other", run |-> 0]>> \o Lex(json, i + 1, "code", 0)

Classes == Lex(cin, 1, "code", 0)

Copies(p) == Cardinality({ k \in DOMAIN cout : cout[k].i = p })

\* positions p and p + 1 are copied side by side
CopiedTogether(p) ==
    \E k \in DOMAIN cout : k + 1 \in DOMAIN cout /\ cout[k].i = p /\ cout[k + 1].i = p + 1

\* C29: json_sanitize removes every '//' comment that starts outside a string
\* literal (no character of it reaches the output, also when the comment
\* holds a double quote, and a '//' inside a string literal is kept), and it
\* emits every character of a string literal unchanged, also of a literal
\* that starts at the first character of the input.
C29_CommentsAndStrings ==
    cphase = "sanitized" =>
        \A p \in DOMAIN cin :
            /\ Classes[p].cls = "comment" => Copies(p) = 0
            /\ Classes[p].cls = "string" =>
                  /\ Copies(p) = 1
                  /\ (p < Len(cin) /\ Classes[p + 1] = Classes[p]) => CopiedTogether(p)

IdStarts == { p \in DOMAIN cin : Classes[p].cls = "id" /\ Classes[p].run = p }

IdEnd(s) == CHOOSE e \in s..Len(cin) :
                /\ \A p \in s..e : Classes[p] = [cls |-> "id", run |-> s]
                /\ e < Len(cin) => Classes[e + 1] # [cls |-> "id", run |-> s]

IdWord(s) == SubSeq(cin, s, IdEnd(s))

\* the identifier starting at s is in the output from k on: in double quotes,
\* or bare when it is true or false
EmittedAt(s, k) ==
    LET n    == IdEnd(s) - s + 1
        bare == IdWord(s) \in {<<"t", "r", "u", "e">>, <<"f", "a", "l", "s", "e">>}
    IN  /\ k + n - 1 \in DOMAIN cout
        /\ \A j \in 0..(n - 1) : cout[k + j].i = s + j
        /\ ~bare => /\ k - 1 \in DOMAIN cout /\ cout[k - 1] = Added
                    /\ k + n \in DOMAIN cout /\ cout[k + n] = Added
        /\ bare => /\ k - 1 \in DOMAIN cout => cout[k - 1] # Added
                   /\ k + n \in DOMAIN cout => cout[k + n] # Added

\* C30: json_sanitize emits every unquoted identifier of the input exactly
\* once, in double quotes, true and false bare; also an identifier that ends
\* the input, and identifiers separated only by a comment stay two; all
\* characters that are neither identifier nor comment keep their order.
C30_Identifiers ==
    cphase = "sanitized" =>
        /\ \A s \in IdStarts :
              /\ \E k \in DOMAIN cout : EmittedAt(s, k)
              /\ \A p \in s..IdEnd(s) : Copies(p) = 1
        /\ \A p \in DOMAIN cin : Classes[p].cls \in {"other", "string"} => Copies(p) = 1
        /\ \A k, m \in DOMAIN cout :
              (k < m /\ cout[k].i # 0 /\ cout[m].i # 0) => cout[k].i < cout[m].i
=============================================================================
